---- MODULE Spec2Model ----
(***************************************************************************)
(* Model of the template-switch generator: the overlap detector            *)
(* (sequence_modifier/template_switch_overlap_detector.rs), the sequence   *)
(* modifier (sequence_modifier/mod.rs) and the generate-pair front end     *)
(* (main.rs).                                                              *)
(*                                                                         *)
(* usize and isize are modelled as WordBits-wide machine integers: a cast  *)
(* between them reinterprets the bits, unchecked arithmetic wraps, and     *)
(* checked arithmetic (overflow_checks, the debug profile) panics.         *)
(***************************************************************************)
EXTENDS Integers, Sequences, FiniteSets, TLC

\* ------------------------------------------------------------------------
\* Bounds of the model.
\* ------------------------------------------------------------------------
WordBits == 6        \* width of usize / isize in the model
MaxPosition == 1     \* largest position passed to apply_modification
MaxLength == 2       \* largest length passed to apply_modification
MaxOffset == 1       \* offsets passed are -MaxOffset..MaxOffset
MaxLengthDifference == 2  \* largest length difference passed
MaxNegativeLengthDifference == 1  \* the smallest one passed is minus this
MaxMargin == 1       \* margins are 0..MaxMargin
MaxStack == 2        \* cap on Len(modification_stack) in DetectorSpec
MaxSwitches == 3     \* cap on Len(template_switches) in DetectorSpec

\* The generate-pair command line of Spec.
ancestor_length == 7
ShortAncestorLength == 3
template_switch_amount == 4
gap_amount == 1
substitution_amount == 1
template_switch_min_offset == 0
template_switch_max_offset == 0
template_switch_min_length == 2
template_switch_max_length == 2
template_switch_min_length_difference == 0
template_switch_max_length_difference == 2
MaxTries == 2        \* template_switch_maximum_overlap_tries is 0..MaxTries
MaxGapLength == 2    \* sampled gap lengths are 1..MaxGapLength
AlphabetSize == 4    \* AlphabetType::SIZE
MaxSplitInt == 8      \* split_int_random is called with int in 0..MaxSplitInt
MaxAmount == 2        \* new_modifier_pair is called with amounts in 0..MaxAmount
MaxSequenceLength == 3   \* sequences given to apply have 0..MaxSequenceLength characters
N == 2                   \* context length of the n-gram model
MaxTrainingLength == 4   \* training sequences have 0..MaxTrainingLength characters
PairedCharacters == 2    \* characters used when two sequences are trained on
AbundanceBits == 4       \* width of an abundance (u32) in the model
MaxIntervalLength == 4   \* next is called on its own with sequence lengths 0..MaxIntervalLength
MaxIntervalOffset == 2   \* largest configured template_switch_max_offset
MaxIntervalNegativeDifference == 2  \* smallest configured length difference is minus this
MaxGeneratedLength == 4  \* generate_sequence is asked for 0..MaxGeneratedLength characters
MaxSufficientLength == 16  \* sequence lengths searched for the least sufficient one
FractionDenominator == 4  \* reference_ancestry_fraction is a multiple of 1/4

VARIABLES
    template_switches,      \* TemplateSwitchOverlapDetector.template_switches
    modification_stack,     \* TemplateSwitchOverlapDetector.modification_stack
    margin,                 \* TemplateSwitchOverlapDetector.margin
    overflow_checks,        \* TRUE: arithmetic overflow panics (debug profile)
    collision,              \* what the latest apply_modification call returned
    parameters,             \* SequenceModificationParameters: the overlap switch
                            \* and the maximum number of tries
    amount,                 \* sequence_modification_amount of both modifiers
    sequence_length,        \* reference.len() and query.len()
    pass,                   \* the modifier generate-pair is running
    pc,                     \* where that modifier is
    tries,                  \* the local `tries` of SequenceModifier::next
    verdicts,               \* history: the detector's answers in this call of next
    modification,           \* what next returned last (the local of apply)
    error,                  \* the Err that ended the command
    stored_by_reference,    \* history: template_switches when the reference pass ended
    budget,                 \* history: the amounts new_modifier_pair handed out
    calls,                  \* history: calls of next made by the running apply
    applied,                \* history: modifications that apply has applied, by kind
    required_sequence_length,  \* template_switch_required_sequence_length of the Err
    input,                  \* the arguments of a function called on its own
    output                  \* what that function returned

detector_vars == <<template_switches, modification_stack, margin, collision>>
modifier_vars == <<parameters, amount, sequence_length, pass, pc, tries, verdicts,
                   modification, error, stored_by_reference, budget, calls,
                   applied, required_sequence_length>>
function_vars == <<input, output>>
vars == <<detector_vars, overflow_checks, modifier_vars, function_vars>>

\* ------------------------------------------------------------------------
\* Machine integers.
\* ------------------------------------------------------------------------
RECURSIVE Pow2(_)
Pow2(n) == IF n = 0 THEN 1 ELSE 2 * Pow2(n - 1)

UsizeModulus == Pow2(WordBits)
ISIZE_MAX == (UsizeModulus \div 2) - 1
ISIZE_MIN == -(UsizeModulus \div 2)

Min(a, b) == IF a <= b THEN a ELSE b
Max(a, b) == IF a >= b THEN a ELSE b

\* `x as usize` for an isize x, and the wrapped result of usize arithmetic.
AsUsize(x) == x % UsizeModulus
\* `x as isize` for a usize x, and the wrapped result of isize arithmetic.
AsIsize(x) == LET u == x % UsizeModulus IN IF u > ISIZE_MAX THEN u - UsizeModulus ELSE u

UsizeOverflows(x) == x < 0 \/ x >= UsizeModulus
IsizeOverflows(x) == x < ISIZE_MIN \/ x > ISIZE_MAX

\* ------------------------------------------------------------------------
\* SequenceModification values.
\* ------------------------------------------------------------------------
TemplateSwitch(position, length, offset, length_difference) ==
    [kind |-> "TemplateSwitch", position |-> position, length |-> length,
     offset |-> offset, length_difference |-> length_difference]
Insertion(position, source, length) ==
    [kind |-> "Insertion", position |-> position, source |-> source, length |-> length]
Deletion(position, length) ==
    [kind |-> "Deletion", position |-> position, length |-> length]
Substitution(position, character_increment) ==
    [kind |-> "Substitution", position |-> position,
     character_increment |-> character_increment]

\* Ok(None), and the value of `modification` before the first call.
NoModification == [kind |-> "None"]

Range(start, end) == [start |-> start, end |-> end]

\* ------------------------------------------------------------------------
\* TemplateSwitchOverlapDetector::apply_modification, template-switch arm.
\* ------------------------------------------------------------------------

\* position.min((position as isize - length as isize + offset) as usize)
range_offset(m) ==
    Min(m.position, AsUsize(AsIsize(m.position) - AsIsize(m.length) + m.offset))


\* position.max((position as isize + length as isize - length_difference) as usize)
\*         .max((position as isize + offset) as usize)
range_limit(m) ==
    Max(Max(m.position,
            AsUsize(AsIsize(m.position) + AsIsize(m.length) - m.length_difference)),
        AsUsize(AsIsize(m.position) + m.offset))

\* Some isize operation of the two expressions above leaves the isize domain.
range_arithmetic_overflows(m) ==
    \/ IsizeOverflows(AsIsize(m.position) - AsIsize(m.length))
    \/ IsizeOverflows(AsIsize(AsIsize(m.position) - AsIsize(m.length)) + m.offset)
    \/ IsizeOverflows(AsIsize(m.position) + AsIsize(m.length))
    \/ IsizeOverflows(AsIsize(AsIsize(m.position) + AsIsize(m.length))
                      - m.length_difference)
    \/ IsizeOverflows(AsIsize(m.position) + m.offset)

\* The early return: range_offset < margin or an endpoint above isize::MAX.
rejected_by_margin(m) ==
    \/ range_offset(m) < margin
    \/ range_offset(m) > ISIZE_MAX
    \/ range_limit(m) > ISIZE_MAX

\* (range_offset - self.margin)..(range_limit + self.margin)
candidate_range(m) ==
    Range(range_offset(m) - margin, AsUsize(range_limit(m) + margin))

candidate_range_overflows(m) == UsizeOverflows(range_limit(m) + margin)

\* Variant: a substitution shifts what lies behind it by one character.
rewrite_endpoint_shifted_by_substitutions(e, prior) ==
    IF e > prior.position
    THEN IF prior.kind = "TemplateSwitch"
         THEN Max(prior.position, AsUsize(AsIsize(e) - prior.length_difference))
         ELSE IF prior.kind = "Insertion"
         THEN Max(prior.position, AsUsize(e - prior.length))
         ELSE IF prior.kind = "Deletion"
         THEN Max(prior.position, AsUsize(e + prior.length))
         ELSE Max(prior.position, AsUsize(e - 1))
    ELSE e

\* One endpoint of the candidate undone through one prior modification.
rewrite_endpoint(e, prior) ==
    IF prior.kind = "TemplateSwitch" THEN
        IF e > prior.position
        THEN Max(prior.position, AsUsize(AsIsize(e) - prior.length_difference))
        ELSE e
    ELSE IF prior.kind = "Insertion" THEN
        IF e > prior.position
        THEN Max(prior.position, AsUsize(e - prior.length))
        ELSE e
    ELSE IF prior.kind = "Deletion" THEN
        IF e > prior.position
        THEN Max(prior.position, AsUsize(e + prior.length))
        ELSE e
    ELSE e

\* The arithmetic of rewrite_endpoint leaves the domain of its type.
rewrite_endpoint_overflows(e, prior) ==
    /\ prior.kind \in {"TemplateSwitch", "Insertion", "Deletion"}
    /\ e > prior.position
    /\ IF prior.kind = "TemplateSwitch"
       THEN IsizeOverflows(AsIsize(e) - prior.length_difference)
       ELSE IF prior.kind = "Insertion"
       THEN UsizeOverflows(e - prior.length)
       ELSE UsizeOverflows(e + prior.length)

\* modification_stack.iter().rev().fold(new_range, ...): stack[k] is undone
\* first, then stack[k-1], down to stack[1].  `overflow` records whether any
\* step overflowed.
RECURSIVE rewrite_range(_, _, _)
rewrite_range(range, stack, k) ==
    IF k = 0 THEN range
    ELSE rewrite_range(
            [start |-> rewrite_endpoint(range.start, stack[k]),
             end |-> rewrite_endpoint(range.end, stack[k]),
             overflow |-> \/ range.overflow
                          \/ rewrite_endpoint_overflows(range.start, stack[k])
                          \/ rewrite_endpoint_overflows(range.end, stack[k])],
            stack, k - 1)

\* The local new_range after the fold, with the overflow flag of the whole
\* computation since the early return.
new_range_of(m) ==
    LET candidate == candidate_range(m)
    IN rewrite_range([start |-> candidate.start,
                      end |-> candidate.end,
                      overflow |-> candidate_range_overflows(m)],
                     modification_stack, Len(modification_stack))

\* template_switches.iter().take_while(|range| range.end <= new_range.start).count()
insertion_offset(switches, new_range) ==
    LET stops == {i \in 1..Len(switches) : ~(switches[i].end <= new_range.start)}
    IN IF stops = {} THEN Len(switches)
       ELSE (CHOOSE i \in stops : \A j \in stops : i <= j) - 1

\* new_range.start < range.end && range.start < new_range.end
ranges_collide(new_range, range) ==
    new_range.start < range.end /\ range.start < new_range.end

\* Vec::insert(index, element), index counted from 0.
InsertAt(s, index, x) ==
    SubSeq(s, 1, index) \o <<x>> \o SubSeq(s, index + 1, Len(s))

\* The detector after a call that changed nothing, returning `c`.
outcome_unchanged(c) ==
    [collision |-> c,
     template_switches |-> template_switches,
     modification_stack |-> modification_stack]

\* Variant: the rejected template switch is pushed all the same.
outcome_overlap_pushing(m) ==
    [collision |-> "Overlap",
     template_switches |-> template_switches,
     modification_stack |-> Append(modification_stack, m)]

\* return TemplateSwitchCollision::Overlap (both places).
outcome_overlap(m) == outcome_unchanged("Overlap")

\* insert(insertion_offset, new_range); push(m); Independent (both places).
outcome_independent(m, offset, new_range) ==
    [collision |-> "Independent",
     template_switches |-> InsertAt(template_switches, offset, new_range),
     modification_stack |-> Append(modification_stack, m)]

\* if let Some(range) = template_switches.get(insertion_offset) { collide? }
collides_at(offset, new_range) ==
    /\ offset < Len(template_switches)
    /\ ranges_collide(new_range, template_switches[offset + 1])

\* The search and the insertion, once new_range is known.
place_template_switch(m, new_range) ==
    LET offset == insertion_offset(template_switches, new_range)
    IN IF collides_at(offset, new_range)
       THEN outcome_overlap(m)
       ELSE outcome_independent(m, offset, new_range)

\* The template-switch arm.  Under overflow_checks an overflowing operation
\* panics before anything is stored.
apply_template_switch(m) ==
    IF overflow_checks /\ range_arithmetic_overflows(m) THEN outcome_unchanged("Panic")
    ELSE IF rejected_by_margin(m) THEN outcome_overlap(m)
    ELSE LET folded == new_range_of(m)
         IN IF overflow_checks /\ folded.overflow THEN outcome_unchanged("Panic")
            ELSE place_template_switch(m, Range(folded.start, folded.end))

\* Variant: a substitution, which shifts no coordinate, is not recorded.
apply_other_modification_skipping_substitutions(m) ==
    [collision |-> "Independent",
     template_switches |-> template_switches,
     modification_stack |-> IF m.kind = "Substitution" THEN modification_stack
                            ELSE Append(modification_stack, m)]

\* Insertion, Deletion and Substitution arm.
apply_other_modification(m) ==
    [collision |-> "Independent",
     template_switches |-> template_switches,
     modification_stack |-> Append(modification_stack, m)]

apply_modification(m) ==
    IF m.kind = "TemplateSwitch" THEN apply_template_switch(m)
    ELSE apply_other_modification(m)

\* ------------------------------------------------------------------------
\* The detector driven directly: any sequence of apply_modification and
\* clear_modification_stack calls.
\* ------------------------------------------------------------------------
Positions == 0..MaxPosition
Lengths == 0..MaxLength
GapLengths == 1..MaxLength
Offsets == (-MaxOffset)..MaxOffset
LengthDifferences == (-MaxNegativeLengthDifference)..MaxLengthDifference

TemplateSwitchInputs ==
    {TemplateSwitch(position, length, offset, length_difference) :
        position \in Positions, length \in Lengths, offset \in Offsets,
        length_difference \in LengthDifferences}

OtherInputs ==
    {Insertion(position, 0, length) : position \in Positions, length \in GapLengths}
    \cup {Deletion(position, length) : position \in Positions, length \in GapLengths}
    \cup {Substitution(position, 1) : position \in Positions}

\* TemplateSwitchOverlapDetector::from_template_switch_margin, for each build.
from_template_switch_margin ==
    /\ template_switches = <<>>
    /\ modification_stack = <<>>
    /\ margin \in 0..MaxMargin
    /\ overflow_checks \in BOOLEAN
    /\ collision = "None"

\* What apply has applied before its first call of next.
NothingApplied == [template_switch |-> 0, gap |-> 0, substitution |-> 0]

NoCall == [function |-> "none"]

\* No modifier runs in DetectorSpec.
NoModifier ==
    /\ parameters = [template_switch_overlap |-> FALSE,
                     template_switch_maximum_overlap_tries |-> 0]
    /\ amount = [p \in {"reference", "query"} |->
                    [template_switch_amount |-> 0, gap_amount |-> 0,
                     substitution_amount |-> 0]]
    /\ sequence_length = [p \in {"reference", "query"} |-> 0]
    /\ pass = "none"
    /\ pc = "detector"
    /\ tries = 0
    /\ verdicts = <<>>
    /\ modification = NoModification
    /\ error = "None"
    /\ stored_by_reference = <<>>
    /\ budget = amount
    /\ calls = 0
    /\ applied = NothingApplied
    /\ required_sequence_length = 0

\* No function is called on its own in DetectorSpec and Spec.
NoFunction ==
    /\ input = NoCall
    /\ output = NoCall

DetectorInit == from_template_switch_margin /\ NoModifier /\ NoFunction

\* A panic ends the process; the caps keep the state space finite.
CanCall ==
    /\ collision # "Panic"
    /\ Len(modification_stack) < MaxStack
    /\ Len(template_switches) < MaxSwitches

\* The detector's fields and the returned collision after apply_modification(m).
Returns(outcome) ==
    /\ collision' = outcome.collision
    /\ template_switches' = outcome.template_switches
    /\ modification_stack' = outcome.modification_stack

ApplyTemplateSwitch ==
    /\ CanCall
    /\ \E m \in TemplateSwitchInputs : Returns(apply_modification(m))
    /\ UNCHANGED <<margin, overflow_checks, modifier_vars, function_vars>>

ApplyInsertion ==
    /\ CanCall
    /\ \E position \in Positions, length \in GapLengths :
          Returns(apply_modification(Insertion(position, 0, length)))
    /\ UNCHANGED <<margin, overflow_checks, modifier_vars, function_vars>>

ApplyDeletion ==
    /\ CanCall
    /\ \E position \in Positions, length \in GapLengths :
          Returns(apply_modification(Deletion(position, length)))
    /\ UNCHANGED <<margin, overflow_checks, modifier_vars, function_vars>>

ApplySubstitution ==
    /\ CanCall
    /\ \E position \in Positions :
          Returns(apply_modification(Substitution(position, 1)))
    /\ UNCHANGED <<margin, overflow_checks, modifier_vars, function_vars>>

\* Variant: the detector is reset as a whole.
clear_whole_detector ==
    /\ collision # "Panic"
    /\ modification_stack' = <<>>
    /\ template_switches' = <<>>
    /\ collision' = "None"
    /\ UNCHANGED <<margin, overflow_checks, modifier_vars, function_vars>>

clear_modification_stack ==
    /\ collision # "Panic"
    /\ modification_stack' = <<>>
    /\ collision' = "None"
    /\ UNCHANGED <<template_switches, margin, overflow_checks, modifier_vars,
                   function_vars>>

DetectorNext ==
    \/ ApplyTemplateSwitch
    \/ ApplyInsertion
    \/ ApplyDeletion
    \/ ApplySubstitution
    \/ clear_modification_stack

DetectorSpec == DetectorInit /\ [][DetectorNext]_vars

\* ------------------------------------------------------------------------
\* SequenceModifier::next and apply, driven by GeneratePair::call.
\* ------------------------------------------------------------------------
Passes == {"reference", "query"}

\* The reference_ancestry_fraction values: numerator / FractionDenominator.
Fractions == 0..FractionDenominator

\* The command lines explored: template switches only on the long ancestor,
\* or one template switch among gaps and substitutions on a short one.
GeneratePairCommands ==
    {[ancestor_length |-> ancestor_length,
      sequence_modification_amount |->
          [template_switch_amount |-> template_switch_amount, gap_amount |-> 0,
           substitution_amount |-> 0]]}
    \cup {[ancestor_length |-> length,
           sequence_modification_amount |->
               [template_switch_amount |-> 1, gap_amount |-> gap_amount,
                substitution_amount |-> substitution_amount]] :
            length \in 0..ShortAncestorLength}

\* split_int_random(int, fraction, rng): the pairs it can return.  The two
\* floors are taken on exact quotients.
split_int_random(int, numerator) ==
    LET amount1_int == (numerator * int) \div FractionDenominator
        amount2_int ==
            ((FractionDenominator - numerator) * int) \div FractionDenominator
    IN IF amount1_int + amount2_int = int - 1
       THEN {<<amount1_int + 1, amount2_int>>, <<amount1_int, amount2_int + 1>>}
       ELSE {<<amount1_int, amount2_int>>}

\* `int - 1` on usize with int = 0 under overflow checks.
split_int_random_panics(int) == overflow_checks /\ int = 0

\* new_modifier_pair: the first part of each split goes to the query.
new_modifier_pair(total, numerator) ==
    {[query |-> [template_switch_amount |-> t[1], gap_amount |-> g[1],
                 substitution_amount |-> s[1]],
      reference |-> [template_switch_amount |-> t[2], gap_amount |-> g[2],
                     substitution_amount |-> s[2]]] :
        t \in split_int_random(total.template_switch_amount, numerator),
        g \in split_int_random(total.gap_amount, numerator),
        s \in split_int_random(total.substitution_amount, numerator)}

new_modifier_pair_panics(total) ==
    \/ split_int_random_panics(total.template_switch_amount)
    \/ split_int_random_panics(total.gap_amount)
    \/ split_int_random_panics(total.substitution_amount)

\* GeneratePair::call up to the first reference_modifier.apply.
Init ==
    /\ from_template_switch_margin
    /\ parameters \in [template_switch_overlap : BOOLEAN,
                       template_switch_maximum_overlap_tries : 0..MaxTries]
    /\ \E command \in GeneratePairCommands :
          /\ sequence_length = [p \in Passes |-> command.ancestor_length]
          /\ IF new_modifier_pair_panics(command.sequence_modification_amount)
             THEN /\ amount
                        = [p \in Passes |-> command.sequence_modification_amount]
                  /\ pc = "panicked"
             ELSE /\ \E numerator \in Fractions :
                        amount \in new_modifier_pair(
                                       command.sequence_modification_amount,
                                       numerator)
                  /\ pc = "next"
    /\ pass = "reference"
    /\ tries = 0
    /\ verdicts = <<>>
    /\ modification = NoModification
    /\ error = "None"
    /\ stored_by_reference = <<>>
    /\ budget = amount
    /\ calls = 0
    /\ applied = NothingApplied
    /\ required_sequence_length = 0
    /\ NoFunction

remaining == amount[pass]
sum ==
    remaining.template_switch_amount + remaining.gap_amount
        + remaining.substitution_amount

\* Variant: the budget is left as it was.
not_decremented(field) == amount

\* Variant: the budget is charged twice.
decremented_twice(field) ==
    [amount EXCEPT ![pass] = [@ EXCEPT ![field] = @ - 2]]

\* self.sequence_modification_amount.<field> -= 1
decremented(field) ==
    [amount EXCEPT ![pass] = [@ EXCEPT ![field] = @ - 1]]

\* return Err(error)
Fails(e) ==
    /\ pc' = "failed"
    /\ error' = e

\* if sequence_length == 0 { return Err(Error::SequenceBecameEmpty) }
NextSequenceBecameEmpty ==
    /\ pc = "next"
    /\ sequence_length[pass] = 0
    /\ Fails("SequenceBecameEmpty")
    /\ UNCHANGED <<detector_vars, overflow_checks, parameters, amount,
                   sequence_length, pass, tries, verdicts, modification,
                   stored_by_reference>>
    /\ calls' = calls + 1
    /\ UNCHANGED <<budget, applied, required_sequence_length, function_vars>>

\* Variant: returning Ok(None) also empties the detector's stack.
NextNoneClearingStack ==
    /\ pc = "next"
    /\ sequence_length[pass] # 0
    /\ sum = 0
    /\ modification' = NoModification
    /\ pc' = IF pass = "reference" THEN "clear" ELSE "done"
    /\ modification_stack' = <<>>
    /\ calls' = calls + 1
    /\ UNCHANGED <<template_switches, margin, collision, overflow_checks,
                   parameters, amount, sequence_length, pass, tries, verdicts,
                   error, stored_by_reference, budget, applied,
                   required_sequence_length, function_vars>>

\* (0..sum).choose(rng) is None: Ok(None), which ends apply with Ok(()).
NextNone ==
    /\ pc = "next"
    /\ sequence_length[pass] # 0
    /\ sum = 0
    /\ modification' = NoModification
    /\ pc' = IF pass = "reference" THEN "clear" ELSE "done"
    /\ UNCHANGED <<detector_vars, overflow_checks, parameters, amount,
                   sequence_length, pass, tries, verdicts, error,
                   stored_by_reference>>
    /\ calls' = calls + 1
    /\ UNCHANGED <<budget, applied, required_sequence_length, function_vars>>

\* index < template_switch_amount: the budget is decremented, tries = 0.
NextTemplateSwitch ==
    /\ pc = "next"
    /\ sequence_length[pass] # 0
    /\ remaining.template_switch_amount > 0
    /\ amount' = decremented("template_switch_amount")
    /\ tries' = 0
    /\ verdicts' = <<>>
    /\ pc' = "template_switch"
    /\ UNCHANGED <<detector_vars, overflow_checks, parameters, sequence_length,
                   pass, modification, error, stored_by_reference>>
    /\ calls' = calls + 1
    /\ UNCHANGED <<budget, applied, required_sequence_length, function_vars>>

\* Variant: the loop admits one try more.
tries_left_inclusive ==
    tries <= parameters.template_switch_maximum_overlap_tries

\* if tries < template_switch_maximum_overlap_tries { tries += 1 } else { Err }
tries_left ==
    tries < parameters.template_switch_maximum_overlap_tries

TemplateSwitchOverlapError ==
    /\ pc = "template_switch"
    /\ ~tries_left
    /\ Fails("TemplateSwitchOverlap")
    /\ UNCHANGED <<detector_vars, overflow_checks, parameters, amount,
                   sequence_length, pass, tries, verdicts, modification,
                   stored_by_reference>>
    /\ UNCHANGED <<budget, calls, applied, required_sequence_length, function_vars>>

SampledOffsets == template_switch_min_offset..template_switch_max_offset
SampledLengths == template_switch_min_length..template_switch_max_length
SampledLengthDifferences(length) ==
    template_switch_min_length_difference
        ..Min(template_switch_max_length_difference, length)

\* 0.max(offset - length) + margin
\*   ..(sequence_length - 0.max(offset).max(length).max(length + length_difference))
\*     - margin
position_range_on(length_of_sequence, offset, length, length_difference) ==
    Range(Max(0, offset - length) + margin,
          (length_of_sequence
             - Max(Max(Max(0, offset), length), length + length_difference))
            - margin)

position_range(offset, length, length_difference) ==
    position_range_on(sequence_length[pass], offset, length, length_difference)

PositionsIn(range) == range.start..(range.end - 1)

\* (position_range.start + (sequence_length as isize - position_range.end)) as usize
template_switch_required_sequence_length(range) ==
    AsUsize(range.start + (sequence_length[pass] - range.end))

\* position_range.choose(rng) is None: SequenceTooShortForTemplateSwitch.
TemplateSwitchTooShort ==
    /\ pc = "template_switch"
    /\ tries_left
    /\ \E offset \in SampledOffsets, length \in SampledLengths :
          \E length_difference \in SampledLengthDifferences(length) :
             LET range == position_range(offset, length, length_difference)
             IN /\ PositionsIn(range) = {}
                /\ required_sequence_length'
                       = template_switch_required_sequence_length(range)
    /\ tries' = tries + 1
    /\ Fails("SequenceTooShortForTemplateSwitch")
    /\ UNCHANGED <<detector_vars, overflow_checks, parameters, amount,
                   sequence_length, pass, verdicts, modification,
                   stored_by_reference>>
    /\ UNCHANGED <<budget, calls, applied, function_vars>>

\* template_switch_overlap is set: break result, the detector is not asked.
TemplateSwitchUnchecked ==
    /\ pc = "template_switch"
    /\ tries_left
    /\ parameters.template_switch_overlap
    /\ \E offset \in SampledOffsets, length \in SampledLengths :
          \E length_difference \in SampledLengthDifferences(length) :
             \E position \in
                  PositionsIn(position_range(offset, length, length_difference)) :
                modification'
                    = TemplateSwitch(position, length, offset, length_difference)
    /\ tries' = tries + 1
    /\ pc' = "apply"
    /\ UNCHANGED <<detector_vars, overflow_checks, parameters, amount,
                   sequence_length, pass, verdicts, error, stored_by_reference>>
    /\ UNCHANGED <<budget, calls, applied, required_sequence_length, function_vars>>

\* Otherwise the detector decides: Overlap retries, Independent breaks.
TemplateSwitchChecked ==
    /\ pc = "template_switch"
    /\ tries_left
    /\ ~parameters.template_switch_overlap
    /\ \E offset \in SampledOffsets, length \in SampledLengths :
          \E length_difference \in SampledLengthDifferences(length) :
             \E position \in
                  PositionsIn(position_range(offset, length, length_difference)) :
                LET result ==
                        TemplateSwitch(position, length, offset, length_difference)
                    outcome == apply_modification(result)
                IN /\ Returns(outcome)
                   /\ verdicts' = Append(verdicts, outcome.collision)
                   /\ modification' = IF outcome.collision = "Independent"
                                      THEN result ELSE modification
                   /\ pc' = IF outcome.collision = "Overlap" THEN "template_switch"
                            ELSE IF outcome.collision = "Independent" THEN "apply"
                            ELSE "panicked"
    /\ tries' = tries + 1
    /\ UNCHANGED <<margin, overflow_checks, parameters, amount, sequence_length,
                   pass, error, stored_by_reference>>
    /\ UNCHANGED <<budget, calls, applied, required_sequence_length, function_vars>>

\* gap_length: the rounded exponential sample, at least 1.
SampledGapLengths == 1..MaxGapLength

\* Variant: gaps and substitutions are not reported to the detector.
NotifiesNobody(result) == UNCHANGED detector_vars

\* if !template_switch_overlap { detector.apply_modification(result); }
Notifies(result) ==
    IF parameters.template_switch_overlap
    THEN UNCHANGED detector_vars
    ELSE Returns(apply_modification(result))

\* index in the gap band: the budget is decremented first.
NextGapTooLong ==
    /\ pc = "next"
    /\ sequence_length[pass] # 0
    /\ remaining.gap_amount > 0
    /\ \E gap_length \in SampledGapLengths : gap_length > sequence_length[pass]
    /\ amount' = decremented("gap_amount")
    /\ Fails("SequenceTooShortForGap")
    /\ UNCHANGED <<detector_vars, overflow_checks, parameters, sequence_length,
                   pass, tries, verdicts, modification, stored_by_reference>>
    /\ calls' = calls + 1
    /\ UNCHANGED <<budget, applied, required_sequence_length, function_vars>>

\* (0..sequence_length - gap_length).choose(rng).unwrap() on an empty range.
NextGapUnwrapPanics ==
    /\ pc = "next"
    /\ sequence_length[pass] # 0
    /\ remaining.gap_amount > 0
    /\ \E gap_length \in SampledGapLengths : gap_length = sequence_length[pass]
    /\ amount' = decremented("gap_amount")
    /\ pc' = "panicked"
    /\ UNCHANGED <<detector_vars, overflow_checks, parameters, sequence_length,
                   pass, tries, verdicts, modification, error,
                   stored_by_reference>>
    /\ calls' = calls + 1
    /\ UNCHANGED <<budget, applied, required_sequence_length, function_vars>>

NextInsertion ==
    /\ pc = "next"
    /\ sequence_length[pass] # 0
    /\ remaining.gap_amount > 0
    /\ \E gap_length \in SampledGapLengths :
          /\ gap_length < sequence_length[pass]
          /\ \E position \in 0..(sequence_length[pass] - 1),
                source \in 0..(sequence_length[pass] - gap_length - 1) :
                LET result == Insertion(position, source, gap_length)
                IN /\ Notifies(result)
                   /\ modification' = result
    /\ amount' = decremented("gap_amount")
    /\ pc' = "apply"
    /\ UNCHANGED <<margin, overflow_checks, parameters, sequence_length, pass,
                   tries, verdicts, error, stored_by_reference>>
    /\ calls' = calls + 1
    /\ UNCHANGED <<budget, applied, required_sequence_length, function_vars>>

NextDeletion ==
    /\ pc = "next"
    /\ sequence_length[pass] # 0
    /\ remaining.gap_amount > 0
    /\ \E gap_length \in SampledGapLengths :
          /\ gap_length < sequence_length[pass]
          /\ \E position \in 0..(sequence_length[pass] - gap_length - 1) :
                LET result == Deletion(position, gap_length)
                IN /\ Notifies(result)
                   /\ modification' = result
    /\ amount' = decremented("gap_amount")
    /\ pc' = "apply"
    /\ UNCHANGED <<margin, overflow_checks, parameters, sequence_length, pass,
                   tries, verdicts, error, stored_by_reference>>
    /\ calls' = calls + 1
    /\ UNCHANGED <<budget, applied, required_sequence_length, function_vars>>

NextSubstitution ==
    /\ pc = "next"
    /\ sequence_length[pass] # 0
    /\ remaining.substitution_amount > 0
    /\ \E position \in 0..(sequence_length[pass] - 1),
          character_increment \in 1..(AlphabetSize - 1) :
          LET result == Substitution(position, character_increment)
          IN /\ Notifies(result)
             /\ modification' = result
    /\ amount' = decremented("substitution_amount")
    /\ pc' = "apply"
    /\ UNCHANGED <<margin, overflow_checks, parameters, sequence_length, pass,
                   tries, verdicts, error, stored_by_reference>>
    /\ calls' = calls + 1
    /\ UNCHANGED <<budget, applied, required_sequence_length, function_vars>>

\* sequence.len() - (position as isize + offset + 1) as usize
skipped(m) ==
    sequence_length[pass] - AsUsize(m.position + m.offset + 1)

\* reverse_complement_iter().skip(..).take(length).collect(): its length.
replacement_length(m) ==
    LET skip == AsUsize(skipped(m))
    IN IF skip >= sequence_length[pass]
       THEN 0
       ELSE Min(m.length, sequence_length[pass] - skip)

\* (position as isize + length as isize - length_difference) as usize
splice_end(m) ==
    AsUsize((m.position + m.length) - m.length_difference)

\* SequenceModification::apply panics: checked subtraction, splice bounds.
apply_panics(m) ==
    IF m.kind = "TemplateSwitch"
    THEN \/ overflow_checks /\ UsizeOverflows(skipped(m))
         \/ m.position > splice_end(m)
         \/ splice_end(m) > sequence_length[pass]
    ELSE IF m.kind = "Deletion"
    THEN m.position + m.length > sequence_length[pass]
    ELSE IF m.kind = "Insertion"
    THEN m.position > sequence_length[pass]
    ELSE m.position >= sequence_length[pass]

\* sequence.len() after SequenceModification::apply.
applied_length(m) ==
    IF m.kind = "TemplateSwitch"
    THEN (sequence_length[pass] - (splice_end(m) - m.position))
            + replacement_length(m)
    ELSE IF m.kind = "Insertion"
    THEN sequence_length[pass]
            + Min(m.length, Max(0, sequence_length[pass] - m.source))
    ELSE IF m.kind = "Deletion"
    THEN sequence_length[pass] - m.length
    ELSE sequence_length[pass]

\* The budget a modification is paid from.
budget_of(m) ==
    IF m.kind = "TemplateSwitch" THEN "template_switch"
    ELSE IF m.kind = "Substitution" THEN "substitution"
    ELSE "gap"

\* modification.apply(sequence)?; then the while loop calls next again.
SequenceModificationApply ==
    /\ pc = "apply"
    /\ IF apply_panics(modification)
       THEN /\ pc' = "panicked"
            /\ UNCHANGED sequence_length
            /\ UNCHANGED applied
       ELSE /\ pc' = "next"
            /\ sequence_length'
                   = [sequence_length EXCEPT ![pass] = applied_length(modification)]
            /\ applied' = [applied EXCEPT ![budget_of(modification)] = @ + 1]
    /\ UNCHANGED <<detector_vars, overflow_checks, parameters, amount, pass,
                   tries, verdicts, modification, error, stored_by_reference>>
    /\ UNCHANGED <<budget, calls, required_sequence_length, function_vars>>

\* template_switch_overlap_detector.clear_modification_stack();
cleared_between_passes ==
    modification_stack' = <<>>

\* main.rs: reference pass returned Ok, clear, then the query pass starts.
ClearBetweenPasses ==
    /\ pc = "clear"
    /\ cleared_between_passes
    /\ stored_by_reference' = template_switches
    /\ pass' = "query"
    /\ pc' = "next"
    /\ UNCHANGED <<template_switches, margin, collision, overflow_checks,
                   parameters, amount, sequence_length, tries, verdicts,
                   modification, error>>
    /\ calls' = 0
    /\ applied' = NothingApplied
    /\ UNCHANGED <<budget, required_sequence_length, function_vars>>

Next ==
    \/ NextSequenceBecameEmpty
    \/ NextNone
    \/ NextTemplateSwitch
    \/ TemplateSwitchOverlapError
    \/ TemplateSwitchTooShort
    \/ TemplateSwitchUnchecked
    \/ TemplateSwitchChecked
    \/ NextGapTooLong
    \/ NextGapUnwrapPanics
    \/ NextInsertion
    \/ NextDeletion
    \/ NextSubstitution
    \/ SequenceModificationApply
    \/ ClearBetweenPasses

Spec == Init /\ [][Next]_vars

\* ------------------------------------------------------------------------
\* split_int_random and new_modifier_pair called on their own.
\* ------------------------------------------------------------------------

\* No detector and no modifier take part when a function is called on its own.
NoDetector ==
    /\ template_switches = <<>>
    /\ modification_stack = <<>>
    /\ margin = 0
    /\ collision = "None"

Amounts == 0..MaxAmount

SplitInputs ==
    {[function |-> "split_int_random", int |-> int, numerator |-> numerator] :
        int \in 0..MaxSplitInt, numerator \in Fractions}
    \cup {[function |-> "new_modifier_pair",
           sequence_modification_amount |->
               [template_switch_amount |-> t, gap_amount |-> g,
                substitution_amount |-> sb],
           numerator |-> numerator] :
            t \in Amounts, g \in Amounts, sb \in Amounts, numerator \in Fractions}

SplitInit ==
    /\ NoDetector
    /\ NoModifier
    /\ overflow_checks \in BOOLEAN
    /\ input \in SplitInputs
    /\ output = NoCall

\* The process died in the call.
Panicked == [panicked |-> TRUE]

\* The call returned `value`.
ReturnedValue(value) == [panicked |-> FALSE, value |-> value]

SplitIntRandom ==
    /\ input.function = "split_int_random"
    /\ output = NoCall
    /\ IF split_int_random_panics(input.int)
       THEN output' = Panicked
       ELSE \E parts \in split_int_random(input.int, input.numerator) :
               output' = ReturnedValue(parts)
    /\ UNCHANGED <<detector_vars, overflow_checks, modifier_vars, input>>

NewModifierPair ==
    /\ input.function = "new_modifier_pair"
    /\ output = NoCall
    /\ IF new_modifier_pair_panics(input.sequence_modification_amount)
       THEN output' = Panicked
       ELSE \E pair \in new_modifier_pair(input.sequence_modification_amount,
                                          input.numerator) :
               output' = ReturnedValue(pair)
    /\ UNCHANGED <<detector_vars, overflow_checks, modifier_vars, input>>

SplitNext ==
    \/ SplitIntRandom
    \/ NewModifierPair

SplitSpec == SplitInit /\ [][SplitNext]_vars

\* ------------------------------------------------------------------------
\* SequenceModification::apply called on sequences of characters.
\* ------------------------------------------------------------------------

\* A character is its index in the alphabet.
Characters == 0..(AlphabetSize - 1)

SequencesUpTo(n) == UNION {[1..k -> Characters] : k \in 0..n}

\* The complement of a character, as the DNA alphabet has it: A-T, C-G.
complement(character) == (AlphabetSize - 1) - character

\* sequence.reverse_complement_iter()
reverse_complement_iter(sequence) ==
    [i \in 1..Len(sequence) |->
        complement(sequence[(Len(sequence) + 1) - i])]

\* Iterator::skip(n)
skip(sequence, n) ==
    IF n >= Len(sequence)
    THEN <<>>
    ELSE SubSeq(sequence, n + 1, Len(sequence))

\* The take that does not stop after n items.
take_all(sequence, n) == sequence

\* Iterator::take(n)
take(sequence, n) == SubSeq(sequence, 1, Min(n, Len(sequence)))

\* sequence.splice(start..end, replacement)
splice(sequence, start, end, replacement) ==
    SubSeq(sequence, 1, start) \o replacement
        \o SubSeq(sequence, end + 1, Len(sequence))

\* splice and delete panic on a range that is reversed or past the end.
range_panics(sequence, start, end) == start > end \/ end > Len(sequence)

\* sequence.len() - (position as isize + offset + 1) as usize
skipped_of(sequence, m) ==
    Len(sequence) - AsUsize(m.position + m.offset + 1)

\* reverse_complement_iter().skip(..).take(length).collect()
replacement_of(sequence, m) ==
    take(skip(reverse_complement_iter(sequence),
              AsUsize(skipped_of(sequence, m))),
         m.length)

\* SequenceModification::apply panics instead of returning.
apply_to_panics(sequence, m) ==
    IF m.kind = "TemplateSwitch"
    THEN \/ overflow_checks /\ UsizeOverflows(skipped_of(sequence, m))
         \/ range_panics(sequence, m.position, splice_end(m))
    ELSE IF m.kind = "Insertion"
    THEN range_panics(sequence, m.position, m.position)
    ELSE IF m.kind = "Deletion"
    THEN range_panics(sequence, m.position, m.position + m.length)
    ELSE m.character_increment = 0 \/ m.position >= Len(sequence)

\* The substitution without the increment: the variant that sets the
\* character to its old index.
same_index(character_index, character_increment) == character_index

\* (character_index + character_increment) % AlphabetType::SIZE
incremented_index(character_index, character_increment) ==
    (character_index + character_increment) % AlphabetSize

\* The template switch that splices the read characters unreversed.
template_switch_unreversed(sequence, m) ==
    splice(sequence, m.position, splice_end(m),
           take(skip(sequence, AsUsize(skipped_of(sequence, m))), m.length))

\* The TemplateSwitch arm of SequenceModification::apply.
template_switch_applied(sequence, m) ==
    splice(sequence, m.position, splice_end(m), replacement_of(sequence, m))

\* The sequence after SequenceModification::apply returned.
apply_to(sequence, m) ==
    IF m.kind = "TemplateSwitch"
    THEN template_switch_applied(sequence, m)
    ELSE IF m.kind = "Insertion"
    THEN splice(sequence, m.position, m.position,
                take(skip(sequence, m.source), m.length))
    ELSE IF m.kind = "Deletion"
    THEN splice(sequence, m.position, m.position + m.length, <<>>)
    ELSE [sequence EXCEPT ![m.position + 1] =
             incremented_index(sequence[m.position + 1],
                               m.character_increment)]

SequencePositions == 0..MaxSequenceLength

\* No sequence was substituted in the call before.
NotSubstituted == [substituted |-> FALSE]

SequenceInit ==
    /\ NoDetector
    /\ NoModifier
    /\ overflow_checks \in BOOLEAN
    /\ \E sequence \in SequencesUpTo(MaxSequenceLength) :
          input = [function |-> "new", sequence |-> sequence,
                   modification |-> NoModification,
                   before |-> NotSubstituted]
    /\ output = ReturnedValue(input.sequence)

\* The last call returned a sequence that is short enough to go on with.
CanApply ==
    /\ ~output.panicked
    /\ Len(output.value) <= MaxSequenceLength

\* One call of SequenceModification::apply on the sequence the last call
\* left; `before` keeps what a substitution was applied to when the next
\* call is a substitution too.
Apply(m) ==
    /\ input' = [function |-> "apply", sequence |-> output.value,
                 modification |-> m,
                 before |->
                     IF input.function = "apply"
                           /\ input.modification.kind = "Substitution"
                           /\ m.kind = "Substitution"
                     THEN [substituted |-> TRUE,
                           sequence |-> input.sequence,
                           modification |-> input.modification]
                     ELSE NotSubstituted]
    /\ IF apply_to_panics(output.value, m)
       THEN output' = Panicked
       ELSE output' = ReturnedValue(apply_to(output.value, m))
    /\ UNCHANGED <<detector_vars, overflow_checks, modifier_vars>>

SequenceTemplateSwitch ==
    /\ CanApply
    /\ \E position \in SequencePositions, length \in Lengths,
          offset \in Offsets, length_difference \in LengthDifferences :
             Apply(TemplateSwitch(position, length, offset, length_difference))

SequenceInsertion ==
    /\ CanApply
    /\ \E position \in SequencePositions, source \in SequencePositions,
          length \in GapLengths :
             Apply(Insertion(position, source, length))

SequenceDeletion ==
    /\ CanApply
    /\ \E position \in SequencePositions, length \in GapLengths :
             Apply(Deletion(position, length))

SequenceSubstitution ==
    /\ CanApply
    /\ \E position \in SequencePositions, character_increment \in Characters :
             Apply(Substitution(position, character_increment))

SequenceNext ==
    \/ SequenceTemplateSwitch
    \/ SequenceInsertion
    \/ SequenceDeletion
    \/ SequenceSubstitution

SequenceSpec == SequenceInit /\ [][SequenceNext]_vars

\* ------------------------------------------------------------------------
\* NGramModel::from_sequences.
\* ------------------------------------------------------------------------

\* The sequences a model is trained on: one short one, two short ones over
\* the first characters of the alphabet, and ACGTAC.
TrainingSequence == <<0, 1, 2, 3, 0, 1>>

PairedSequences ==
    UNION {[1..k -> {character \in Characters : character < PairedCharacters}] :
              k \in 0..MaxTrainingLength}

TrainingSets ==
    {<<s>> : s \in SequencesUpTo(MaxTrainingLength)}
    \cup {<<s, t>> : s \in PairedSequences, t \in PairedSequences}
    \cup {<<TrainingSequence>>}

\* model: Default::default()
EmptyModel == [kmer \in {} |-> 0]

\* from_sequences is in its loops, before window `offset` of sequence `index`.
Running(model, index, offset) ==
    [function |-> "from_sequences", state |-> "running", model |-> model,
     index |-> index, offset |-> offset]

NGramInit ==
    /\ NoDetector
    /\ NoModifier
    /\ overflow_checks \in BOOLEAN
    /\ \E sequences \in TrainingSets :
          input = [function |-> "from_sequences", sequences |-> sequences]
    /\ output = Running(EmptyModel, 1, 0)

\* The loop that also counts the last window.
loop_end_with_last_window(sequence) == AsUsize(Len(sequence) - N)

\* sequence.len() - N - 1
loop_end(sequence) == AsUsize((Len(sequence) - N) - 1)

loop_end_overflows(sequence) ==
    overflow_checks /\ UsizeOverflows((Len(sequence) - N) - 1)

\* sequence[offset..offset + N]
kmer_at(sequence, offset) == SubSeq(sequence, offset + 1, offset + N)

\* sequence[offset + N]
successor_at(sequence, offset) == sequence[offset + N + 1]

\* The slice or the index reaches past the end of the sequence.
window_panics(sequence, offset) == offset + N >= Len(sequence)

\* The largest abundance.
U32_MAX == Pow2(AbundanceBits) - 1

\* abundances[successor.index()].checked_add(1).unwrap() panics.
checked_add_panics(model, kmer, successor) ==
    kmer \in DOMAIN model /\ model[kmer][successor] + 1 > U32_MAX

\* The model after one window is counted.
counted(model, kmer, successor) ==
    IF kmer \in DOMAIN model
    THEN [model EXCEPT ![kmer][successor] = @ + 1]
    ELSE model @@ (kmer :> [character \in Characters |->
                               IF character = successor THEN 1 ELSE 0])

InLoops ==
    /\ output.state = "running"
    /\ output.index <= Len(input.sequences)

\* `0..sequence.len() - N - 1` underflows in a build with overflow checks.
FromSequencesUnderflow ==
    /\ InLoops
    /\ loop_end_overflows(input.sequences[output.index])
    /\ output' = [function |-> "from_sequences", state |-> "panicked"]
    /\ UNCHANGED <<detector_vars, overflow_checks, modifier_vars, input>>

\* One pass of the inner loop.
FromSequencesWindow ==
    /\ InLoops
    /\ LET sequence == input.sequences[output.index]
           offset == output.offset
       IN /\ ~loop_end_overflows(sequence)
          /\ offset < loop_end(sequence)
          /\ IF window_panics(sequence, offset)
             THEN output' = [function |-> "from_sequences",
                             state |-> "panicked"]
             ELSE IF checked_add_panics(output.model,
                                        kmer_at(sequence, offset),
                                        successor_at(sequence, offset))
             THEN output' = [function |-> "from_sequences",
                             state |-> "panicked"]
             ELSE output' = Running(counted(output.model,
                                            kmer_at(sequence, offset),
                                            successor_at(sequence, offset)),
                                    output.index, offset + 1)
    /\ UNCHANGED <<detector_vars, overflow_checks, modifier_vars, input>>

\* The inner loop is through: on to the next sequence.
FromSequencesNextSequence ==
    /\ InLoops
    /\ LET sequence == input.sequences[output.index]
       IN /\ ~loop_end_overflows(sequence)
          /\ output.offset >= loop_end(sequence)
    /\ output' = Running(output.model, output.index + 1, 0)
    /\ UNCHANGED <<detector_vars, overflow_checks, modifier_vars, input>>

FromSequencesReturns ==
    /\ output.state = "running"
    /\ output.index > Len(input.sequences)
    /\ output' = [function |-> "from_sequences", state |-> "returned",
                  model |-> output.model]
    /\ UNCHANGED <<detector_vars, overflow_checks, modifier_vars, input>>

NGramNext ==
    \/ FromSequencesUnderflow
    \/ FromSequencesWindow
    \/ FromSequencesNextSequence
    \/ FromSequencesReturns

NGramSpec == NGramInit /\ [][NGramNext]_vars

\* ------------------------------------------------------------------------
\* SequenceModifier::next called on its own with a template-switch budget
\* only and template_switch_overlap set, for every configuration of the
\* three intervals; then SequenceModification::apply on what it returned.
\* With reference_ancestry_fraction = 1.0 this is the first call of the
\* query pass of generate-pair: the reference modifier has no budget.
\* ------------------------------------------------------------------------

\* SequenceModificationParameters: the three intervals, each with min <= max.
IntervalParameters ==
    {c \in [template_switch_min_offset : (-MaxOffset)..0,
            template_switch_max_offset : 0..MaxIntervalOffset,
            template_switch_min_length : 1..MaxLength,
            template_switch_max_length : 1..MaxLength,
            template_switch_min_length_difference :
                (-MaxIntervalNegativeDifference)..0,
            template_switch_max_length_difference : 0..MaxLengthDifference] :
        c.template_switch_min_length <= c.template_switch_max_length}

IntervalInit ==
    /\ template_switches = <<>>
    /\ modification_stack = <<>>
    /\ margin \in 0..MaxMargin
    /\ collision = "None"
    /\ overflow_checks \in BOOLEAN
    /\ parameters \in [template_switch_overlap : {TRUE},
                       template_switch_maximum_overlap_tries : 0..1]
    /\ amount = [p \in {"reference", "query"} |->
                    [template_switch_amount |-> 0, gap_amount |-> 0,
                     substitution_amount |-> 0]]
    /\ sequence_length = [p \in {"reference", "query"} |-> 0]
    /\ pass = "none"
    /\ pc = "detector"
    /\ tries = 0
    /\ verdicts = <<>>
    /\ modification = NoModification
    /\ error = "None"
    /\ stored_by_reference = <<>>
    /\ budget = amount
    /\ calls = 0
    /\ applied = NothingApplied
    /\ required_sequence_length = 0
    /\ \E P \in 0..MaxIntervalLength, c \in IntervalParameters :
          input = [function |-> "next", sequence_length |-> P,
                   sequence_modification_parameters |-> c]
    /\ output = NoCall

\* next returned Err(error).
ReturnedErr(e) == [function |-> "next", result |-> "Err", error |-> e]

\* next returned Ok(Some(modification)).
ReturnedSome(m) == [function |-> "next", result |-> "Some", modification |-> m]

\* The length difference is drawn from min..=max.min(length).
interval_length_differences(c, length) ==
    c.template_switch_min_length_difference
        ..Min(c.template_switch_max_length_difference, length)

IntervalCalled == input.function = "next" /\ output = NoCall

IntervalSequenceBecameEmpty ==
    /\ IntervalCalled
    /\ input.sequence_length = 0
    /\ output' = ReturnedErr("SequenceBecameEmpty")
    /\ UNCHANGED <<detector_vars, overflow_checks, modifier_vars, input>>

IntervalTemplateSwitchOverlap ==
    /\ IntervalCalled
    /\ input.sequence_length # 0
    /\ ~tries_left
    /\ output' = ReturnedErr("TemplateSwitchOverlap")
    /\ UNCHANGED <<detector_vars, overflow_checks, modifier_vars, input>>

IntervalTooShort ==
    /\ IntervalCalled
    /\ input.sequence_length # 0
    /\ tries_left
    /\ LET c == input.sequence_modification_parameters
       IN \E offset \in c.template_switch_min_offset
                            ..c.template_switch_max_offset,
             length \in c.template_switch_min_length
                            ..c.template_switch_max_length :
             \E length_difference \in interval_length_differences(c, length) :
                PositionsIn(position_range_on(input.sequence_length, offset,
                                              length, length_difference)) = {}
    /\ output' = ReturnedErr("SequenceTooShortForTemplateSwitch")
    /\ UNCHANGED <<detector_vars, overflow_checks, modifier_vars, input>>

IntervalReturnsTemplateSwitch ==
    /\ IntervalCalled
    /\ input.sequence_length # 0
    /\ tries_left
    /\ LET c == input.sequence_modification_parameters
       IN \E offset \in c.template_switch_min_offset
                            ..c.template_switch_max_offset,
             length \in c.template_switch_min_length
                            ..c.template_switch_max_length :
             \E length_difference \in interval_length_differences(c, length) :
                \E position \in
                      PositionsIn(position_range_on(input.sequence_length,
                                                    offset, length,
                                                    length_difference)) :
                   output' = ReturnedSome(TemplateSwitch(position, length,
                                                         offset,
                                                         length_difference))
    /\ UNCHANGED <<detector_vars, overflow_checks, modifier_vars, input>>

\* Any sequence of the length next was called with.
SequenceOfLength(P) == [i \in 1..P |-> 0]

\* modification.apply(sequence) on what next returned.
IntervalApply ==
    /\ output # NoCall
    /\ output.function = "next"
    /\ output.result = "Some"
    /\ LET sequence == SequenceOfLength(input.sequence_length)
           m == output.modification
       IN output' = [function |-> "apply", modification |-> m,
                     panicked |-> apply_to_panics(sequence, m),
                     read |-> Len(replacement_of(sequence, m))]
    /\ UNCHANGED <<detector_vars, overflow_checks, modifier_vars, input>>

IntervalNext ==
    \/ IntervalSequenceBecameEmpty
    \/ IntervalTemplateSwitchOverlap
    \/ IntervalTooShort
    \/ IntervalReturnsTemplateSwitch
    \/ IntervalApply

IntervalSpec == IntervalInit /\ [][IntervalNext]_vars

\* ------------------------------------------------------------------------
\* NGramModel::generate_sequence and NGramSequenceGenerator::next.
\* ------------------------------------------------------------------------

\* Half of the abundances a u32 distinguishes: two of them overflow the sum.
LargeAbundance == Pow2(AbundanceBits - 1)

GeneratorCharacters == {character \in Characters : character < PairedCharacters}

GeneratorKmers == [1..N -> GeneratorCharacters]

\* Rows with a positive entry: small counts, or large ones throughout.
GeneratorRows ==
    {row \in [Characters -> {0, 1, LargeAbundance}] :
        /\ \A character \in Characters \ GeneratorCharacters : row[character] = 0
        /\ \E character \in GeneratorCharacters : row[character] > 0
        /\ \/ \A character \in Characters : row[character] <= 1
           \/ \A character \in GeneratorCharacters :
                 row[character] = LargeAbundance}

GeneratorModels ==
    UNION {[keys -> GeneratorRows] : keys \in SUBSET GeneratorKmers}

\* self.kmer is None.
NoKmer == <<>>

\* The generator between two steps: what it has emitted so far, where each
\* emitted character came from (its place 1..N in a seed, 0 for a sampled
\* successor), and how often the running call of next has reseeded.
Generating(sequence, origins, kmer, next_index, reseeds) ==
    [function |-> "generate_sequence", state |-> "running",
     sequence |-> sequence, origins |-> origins, kmer |-> kmer,
     next_index |-> next_index, reseeds |-> reseeds]

\* generate_sequence has ended: returned, failed or panicked.
Ended(state, sequence, origins, failure) ==
    [function |-> "generate_sequence", state |-> state,
     sequence |-> sequence, origins |-> origins, error |-> failure]

GeneratorInit ==
    /\ NoDetector
    /\ NoModifier
    /\ overflow_checks \in BOOLEAN
    /\ \E model \in GeneratorModels, length \in 0..MaxGeneratedLength :
          input = [function |-> "generate_sequence", model |-> model,
                   length |-> length]
    /\ output = NoCall

\* abundances.iter().map(|abundance| *abundance as usize).sum::<usize>()
weight(row) ==
    LET RECURSIVE upto(_)
        upto(character) ==
            IF character < 0 THEN 0
            ELSE upto(character - 1) + row[character]
    IN upto(AlphabetSize - 1)

\* current_sum after the loop has added the entries 0..character, in u32.
current_sum(row, character) ==
    LET RECURSIVE upto(_)
        upto(c) == IF c < 0 THEN 0 ELSE upto(c - 1) + row[c]
    IN upto(character) % (U32_MAX + 1)

\* let sum: u32 = abundances.iter().cloned().sum(): it overflows.
sum_overflows(row) == weight(row) > U32_MAX

\* Variant: the first entry above the sample is taken, counted or not.
index_after_sample(row, sample) ==
    LET above == {character \in Characters : sample < character + 1}
    IN IF above = {} THEN AlphabetSize
       ELSE CHOOSE character \in above :
               \A other \in above : character <= other

\* The loop over the abundances: the first index whose running sum exceeds
\* the sample; AlphabetSize stands for usize::MAX, no index found.
index_of_sample(row, sample) ==
    LET above == {character \in Characters :
                     sample < current_sum(row, character)}
    IN IF above = {} THEN AlphabetSize
       ELSE CHOOSE character \in above :
               \A other \in above : character <= other

\* kmer.successor(character)
successor(kmer, character) == Tail(kmer) \o <<character>>

\* Variant: the place in the seed stays where it is.
next_index_kept(next_index) == next_index

\* self.next_index += 1
next_index_incremented(next_index) == next_index + 1

\* generate_sequence: if length < N { return Err(LengthLowerThanN) }
GenerateSequenceLengthLowerThanN ==
    /\ input.function = "generate_sequence"
    /\ output = NoCall
    /\ input.length < N
    /\ output' = Ended("failed", <<>>, <<>>, "LengthLowerThanN")
    /\ UNCHANGED <<detector_vars, overflow_checks, modifier_vars, input>>

\* WeightedIndex::new(..).map_err(|_| Error::EmptyModel)?
GenerateSequenceEmptyModel ==
    /\ input.function = "generate_sequence"
    /\ output = NoCall
    /\ input.length >= N
    /\ \A kmer \in DOMAIN input.model : weight(input.model[kmer]) = 0
    /\ output' = Ended("failed", <<>>, <<>>, "EmptyModel")
    /\ UNCHANGED <<detector_vars, overflow_checks, modifier_vars, input>>

\* NGramSequenceGenerator::new: kmer None, next_index 0.
GenerateSequenceStarts ==
    /\ input.function = "generate_sequence"
    /\ output = NoCall
    /\ input.length >= N
    /\ \E kmer \in DOMAIN input.model : weight(input.model[kmer]) > 0
    /\ output' = Generating(<<>>, <<>>, NoKmer, 0, 0)
    /\ UNCHANGED <<detector_vars, overflow_checks, modifier_vars, input>>

\* take(length) asks the generator for another character.
Asked ==
    /\ output # NoCall
    /\ output.state = "running"
    /\ Len(output.sequence) < input.length

\* kmer is None: a seed is drawn among the keys, by weight; next_index = 0;
\* then self.next().
GeneratorSeeds ==
    /\ Asked
    /\ output.kmer = NoKmer
    /\ \E kmer \in DOMAIN input.model :
          /\ weight(input.model[kmer]) > 0
          /\ output' = Generating(output.sequence, output.origins, kmer, 0,
                                  output.reseeds + 1)
    /\ UNCHANGED <<detector_vars, overflow_checks, modifier_vars, input>>

\* next_index < N: the next character of the seed is emitted.
GeneratorEmitsSeedCharacter ==
    /\ Asked
    /\ output.kmer # NoKmer
    /\ output.next_index < N
    /\ output' = Generating(
                     Append(output.sequence, output.kmer[output.next_index + 1]),
                     Append(output.origins, output.next_index + 1),
                     output.kmer,
                     next_index_incremented(output.next_index),
                     0)
    /\ UNCHANGED <<detector_vars, overflow_checks, modifier_vars, input>>

\* The k-mer is a key: a successor is sampled from its row, or the sum or
\* the sampling panics.
GeneratorEmitsSuccessor ==
    /\ Asked
    /\ output.kmer # NoKmer
    /\ output.next_index >= N
    /\ output.kmer \in DOMAIN input.model
    /\ LET abundances == input.model[output.kmer]
           sum_u32 == weight(abundances) % (U32_MAX + 1)
       IN IF (overflow_checks /\ sum_overflows(abundances)) \/ sum_u32 = 0
          THEN output' = Ended("panicked", output.sequence, output.origins,
                               "None")
          ELSE \E sample \in 0..(sum_u32 - 1) :
                  LET index == index_of_sample(abundances, sample)
                  IN IF index >= AlphabetSize
                     THEN output' = Ended("panicked", output.sequence,
                                          output.origins, "None")
                     ELSE output' = Generating(
                                        Append(output.sequence, index),
                                        Append(output.origins, 0),
                                        successor(output.kmer, index),
                                        output.next_index, 0)
    /\ UNCHANGED <<detector_vars, overflow_checks, modifier_vars, input>>

\* The k-mer is no key: self.kmer = None; then self.next().
GeneratorDiscardsKmer ==
    /\ Asked
    /\ output.kmer # NoKmer
    /\ output.next_index >= N
    /\ output.kmer \notin DOMAIN input.model
    /\ output' = Generating(output.sequence, output.origins, NoKmer,
                            output.next_index, output.reseeds)
    /\ UNCHANGED <<detector_vars, overflow_checks, modifier_vars, input>>

\* take(length) is through: Ok(SequenceType::from_iter(..)).
GenerateSequenceReturns ==
    /\ output # NoCall
    /\ output.state = "running"
    /\ Len(output.sequence) >= input.length
    /\ output' = Ended("returned", output.sequence, output.origins, "None")
    /\ UNCHANGED <<detector_vars, overflow_checks, modifier_vars, input>>

GeneratorNext ==
    \/ GenerateSequenceLengthLowerThanN
    \/ GenerateSequenceEmptyModel
    \/ GenerateSequenceStarts
    \/ GeneratorSeeds
    \/ GeneratorEmitsSeedCharacter
    \/ GeneratorEmitsSuccessor
    \/ GeneratorDiscardsKmer
    \/ GenerateSequenceReturns

GeneratorSpec == GeneratorInit /\ [][GeneratorNext]_vars

\* ------------------------------------------------------------------------
\* main: the command is run and its error, if any, is printed.
\* ------------------------------------------------------------------------

\* The errors a command can return to main.
ErrorsOf(command) ==
    IF command = "CreateNGramModel"
    THEN {"IO", "GenomeIO", "UnsupportedN", "UnsupportedAlphabet",
          "ModelSerialisation"}
    ELSE {"IO", "UnsupportedN", "UnsupportedAlphabet", "ModelDeserialisation",
          "ReferenceAncestryFractionIsNaN",
          "ReferenceAncestryFractionOutOfRange", "TemplateSwitchOffsetEmpty",
          "TemplateSwitchLengthEmpty", "TemplateSwitchLengthDifferenceEmpty",
          "GapLengthMeanIsNaN", "GapLengthMeanOutOfRange",
          "GapLengthMeanLambda", "LengthLowerThanN", "EmptyModel",
          "SequenceBecameEmpty", "TemplateSwitchOverlap",
          "SequenceTooShortForTemplateSwitch", "SequenceTooShortForGap"}

\* The process at a point of main: the result of the command, what has been
\* printed to the standard output, and the exit status once it has exited.
Process(state, result, stdout, exit_status) ==
    [function |-> "main", state |-> state, result |-> result,
     stdout |-> stdout, exit_status |-> exit_status]

MainInit ==
    /\ NoDetector
    /\ NoModifier
    /\ overflow_checks \in BOOLEAN
    /\ \E command \in {"CreateNGramModel", "GeneratePair"} :
          input = [function |-> "main", command |-> command]
    /\ output = NoCall

\* The match on cli.command: the command returns Ok(()) or an error.
MainCommandReturns ==
    /\ input.function = "main"
    /\ output = NoCall
    /\ \E result \in {"Ok"} \cup ErrorsOf(input.command) :
          output' = Process("returned", result, <<>>, "running")
    /\ UNCHANGED <<detector_vars, overflow_checks, modifier_vars, input>>

\* The command panics: the process unwinds out of main.
MainCommandPanics ==
    /\ input.function = "main"
    /\ output = NoCall
    /\ output' = Process("panicked", "None", <<>>, "running")
    /\ UNCHANGED <<detector_vars, overflow_checks, modifier_vars, input>>

\* .unwrap_or_else(|error| println!("Error: {error}"))
MainUnwrapOrElse ==
    /\ input.function = "main"
    /\ output # NoCall
    /\ output.state = "returned"
    /\ output' = Process("handled", output.result,
                         IF output.result = "Ok" THEN <<>>
                         ELSE <<"Error: ", output.result>>,
                         "running")
    /\ UNCHANGED <<detector_vars, overflow_checks, modifier_vars, input>>

\* main returns (): the process exits with status 0.
MainReturns ==
    /\ input.function = "main"
    /\ output # NoCall
    /\ output.state = "handled"
    /\ output' = Process("exited", output.result, output.stdout, 0)
    /\ UNCHANGED <<detector_vars, overflow_checks, modifier_vars, input>>

\* The panic ends the process with status 101.
MainPanicExits ==
    /\ input.function = "main"
    /\ output # NoCall
    /\ output.state = "panicked"
    /\ output' = Process("exited", output.result, output.stdout, 101)
    /\ UNCHANGED <<detector_vars, overflow_checks, modifier_vars, input>>

MainNext ==
    \/ MainCommandReturns
    \/ MainCommandPanics
    \/ MainUnwrapOrElse
    \/ MainReturns
    \/ MainPanicExits

MainSpec == MainInit /\ [][MainNext]_vars

\* ------------------------------------------------------------------------
\* Properties of the detector.
\* ------------------------------------------------------------------------
\* The range apply_modification compares and stores for m in this state.
NewRange(m) == LET folded == new_range_of(m) IN Range(folded.start, folded.end)

\* m reaches the search of template_switches: not rejected early, no panic.
ReachesSearch(m, returned) ==
    /\ ~rejected_by_margin(m)
    /\ returned # "Panic"

\* C1: template_switches is well-formed, sorted and pairwise disjoint: every
\* stored range has start <= end, and consecutive ranges r, r' satisfy
\* r.end <= r'.start.
C1_SortedDisjoint ==
    /\ \A i \in 1..Len(template_switches) :
          template_switches[i].start <= template_switches[i].end
    /\ \A i \in 1..(Len(template_switches) - 1) :
          template_switches[i].end <= template_switches[i + 1].start

\* C2: a template switch that passes the margin/domain check is answered
\* Overlap exactly when its rewritten range overlaps at least one stored
\* range, Independent exactly when it overlaps none.
C2_OverlapIffSomeStoredRangeOverlaps ==
    \A m \in TemplateSwitchInputs :
        LET returned == apply_modification(m).collision
            new_range == NewRange(m)
        IN ReachesSearch(m, returned) =>
            /\ returned = "Overlap"
                 <=> \E i \in 1..Len(template_switches) :
                        ranges_collide(new_range, template_switches[i])
            /\ returned = "Independent"
                 <=> \A i \in 1..Len(template_switches) :
                        ~ranges_collide(new_range, template_switches[i])

\* The rewriting over the mathematical integers.
MathLo(m) == Min(m.position, m.position - m.length + m.offset)
MathHi(m) ==
    Max(Max(m.position, m.position + m.length - m.length_difference),
        m.position + m.offset)

MathRewriteEndpoint(e, prior) ==
    IF e <= prior.position THEN e
    ELSE IF prior.kind = "TemplateSwitch"
         THEN Max(prior.position, e - prior.length_difference)
    ELSE IF prior.kind = "Insertion" THEN Max(prior.position, e - prior.length)
    ELSE IF prior.kind = "Deletion" THEN Max(prior.position, e + prior.length)
    ELSE e

RECURSIVE MathRewrite(_, _, _)
MathRewrite(range, stack, k) ==
    IF k = 0 THEN range
    ELSE MathRewrite(Range(MathRewriteEndpoint(range.start, stack[k]),
                           MathRewriteEndpoint(range.end, stack[k])),
                     stack, k - 1)

MathRange(m) ==
    MathRewrite(Range(MathLo(m) - margin, MathHi(m) + margin),
                modification_stack, Len(modification_stack))

\* C3: the range stored for an accepted template switch is the candidate
\* [lo - margin, hi + margin) folded through the modification stack, most
\* recent first, over the mathematical integers.
C3_StoredRangeIsMathematicalFold ==
    \A m \in TemplateSwitchInputs :
        LET outcome == apply_modification(m)
        IN outcome.collision = "Independent" =>
            \E index \in 0..Len(template_switches) :
                outcome.template_switches
                    = InsertAt(template_switches, index, MathRange(m))

\* C4: a template switch whose signed lo is below margin, or whose
\* position + length - length_difference or position + offset is outside the
\* non-negative signed domain, is answered Overlap.
C4_RejectsBelowMarginAndOutOfDomain ==
    \A m \in TemplateSwitchInputs :
        ( \/ MathLo(m) < margin
          \/ m.position + m.length - m.length_difference < 0
          \/ m.position + m.length - m.length_difference > ISIZE_MAX
          \/ m.position + m.offset < 0
          \/ m.position + m.offset > ISIZE_MAX )
        => apply_modification(m).collision = "Overlap"

Stored == {template_switches[i] : i \in 1..Len(template_switches)}

\* C5 (first part): a call that returns Overlap leaves template_switches and
\* modification_stack as they were.
C5_OverlapChangesNothing ==
    [][collision' = "Overlap" =>
          /\ template_switches' = template_switches
          /\ modification_stack' = modification_stack]_vars

\* C5 (second part, as claimed): a template switch whose rewritten range is
\* already stored is rejected and leaves the stored ranges unchanged.
C5_StoredRangeIsRejected ==
    \A m \in TemplateSwitchInputs :
        LET outcome == apply_modification(m)
        IN (ReachesSearch(m, outcome.collision) /\ NewRange(m) \in Stored) =>
              /\ outcome.collision = "Overlap"
              /\ outcome.template_switches = template_switches

\* C5 (as claimed): both parts.
C5_Original == C5_OverlapChangesNothing /\ []C5_StoredRangeIsRejected

\* C5 (second part, amended): a template switch whose rewritten range is
\* non-empty and already stored is rejected and leaves the stored ranges
\* unchanged.
C5_NonEmptyStoredRangeIsRejected ==
    CanCall =>
        \A m \in TemplateSwitchInputs :
            LET outcome == apply_modification(m)
                new_range == NewRange(m)
            IN ( /\ ReachesSearch(m, outcome.collision)
                 /\ new_range.start < new_range.end
                 /\ new_range \in Stored ) =>
                  /\ outcome.collision = "Overlap"
                  /\ outcome.template_switches = template_switches

\* C5 (amended): Overlap leaves the detector unchanged, and re-applying a
\* template switch whose non-empty rewritten range is stored is rejected.
C5_Amended == C5_OverlapChangesNothing /\ []C5_NonEmptyStoredRangeIsRejected

\* A template switch was rejected by a detector holding ranges and history.
C5_Witness ==
    /\ collision = "Overlap"
    /\ template_switches # <<>>
    /\ modification_stack # <<>>
    /\ \E m \in TemplateSwitchInputs :
          /\ ~rejected_by_margin(m)
          /\ NewRange(m).start < NewRange(m).end
          /\ NewRange(m) \in Stored

\* C6: apply_modification on an Insertion, Deletion or Substitution returns
\* Independent, appends exactly that modification to modification_stack and
\* leaves template_switches unchanged, in every detector state.
C6_OtherModificationsArePushed ==
    \A m \in OtherInputs :
        /\ apply_modification(m).collision = "Independent"
        /\ apply_modification(m).modification_stack = Append(modification_stack, m)
        /\ apply_modification(m).template_switches = template_switches

\* An Insertion, Deletion or Substitution was applied to a detector that
\* holds ranges.
C6_Witness ==
    /\ modification_stack # <<>>
    /\ modification_stack[Len(modification_stack)].kind # "TemplateSwitch"
    /\ collision = "Independent"
    /\ template_switches # <<>>

\* C7 (frame): clear_modification_stack, the only step after which no
\* collision is pending, empties modification_stack and keeps
\* template_switches and margin.
C7_ClearKeepsRanges ==
    [][collision' = "None" =>
          /\ modification_stack' = <<>>
          /\ template_switches' = template_switches
          /\ margin' = margin]_vars

\* C7 (next template switch): right after the clear, a template switch is
\* searched and stored with its current-coordinate range, unrewritten.
C7_NextSwitchIsNotRewritten ==
    collision = "None" =>
        \A m \in TemplateSwitchInputs :
            LET outcome == apply_modification(m)
                current == candidate_range(m)
                offset == insertion_offset(template_switches, current)
            IN ReachesSearch(m, outcome.collision) =>
                IF collides_at(offset, current)
                THEN outcome.collision = "Overlap"
                ELSE /\ outcome.collision = "Independent"
                     /\ outcome.template_switches
                            = InsertAt(template_switches, offset, current)

\* C7: both parts.
C7_ClearThenCompareUnrewritten == C7_ClearKeepsRanges /\ []C7_NextSwitchIsNotRewritten

\* The stack was cleared while ranges were stored.
C7_Witness ==
    /\ collision = "None"
    /\ modification_stack = <<>>
    /\ template_switches # <<>>

\* ------------------------------------------------------------------------
\* Properties of generate-pair and of the retry loop of next.
\* ------------------------------------------------------------------------
RangesOf(switches) == {switches[i] : i \in 1..Len(switches)}

\* The passes change once, from reference to query, through the clear, which
\* empties the stack and keeps the ranges.
C8_ReferenceThenClearThenQuery ==
    [][pass' # pass =>
          /\ pass = "reference" /\ pass' = "query"
          /\ pc = "clear"
          /\ modification_stack' = <<>>
          /\ template_switches' = template_switches]_vars

\* During the query pass every range the reference pass stored is stored.
C8_ReferenceRangesStayStored ==
    pass = "query" => RangesOf(stored_by_reference) \subseteq Stored

\* A range the query pass stores overlaps no range of the reference pass.
C8_QueryRangesAvoidReferenceRanges ==
    [][(pass = "query" /\ template_switches' # template_switches) =>
          \E index \in 1..Len(template_switches') :
             /\ template_switches'
                    = InsertAt(template_switches, index - 1,
                               template_switches'[index])
             /\ \A range \in RangesOf(stored_by_reference) :
                   ~ranges_collide(template_switches'[index], range)]_vars

\* C8: generate-pair runs the reference pass, clears the modification stack,
\* then runs the query pass on the same detector; the query pass starts with
\* an empty stack, the ranges of the reference pass stay stored throughout
\* the query pass, and no template switch accepted in the query pass has a
\* range overlapping a range stored by the reference pass.
C8_QueryPassRespectsReferencePass ==
    /\ C8_ReferenceThenClearThenQuery
    /\ []C8_ReferenceRangesStayStored
    /\ C8_QueryRangesAvoidReferenceRanges

checking == ~parameters.template_switch_overlap

AllOverlap(v) == \A i \in 1..Len(v) : v[i] = "Overlap"

C9_AtMostMaximumTries ==
    checking => Len(verdicts) <= parameters.template_switch_maximum_overlap_tries

C9_ReturnsFirstIndependent ==
    (checking /\ pc = "apply" /\ modification.kind = "TemplateSwitch") =>
        /\ Len(verdicts) >= 1
        /\ verdicts[Len(verdicts)] = "Independent"
        /\ AllOverlap(SubSeq(verdicts, 1, Len(verdicts) - 1))
        /\ modification_stack # <<>>
        /\ modification = modification_stack[Len(modification_stack)]

C9_OverlapErrorOnlyOnExhaustion ==
    (checking /\ error = "TemplateSwitchOverlap") =>
        /\ Len(verdicts) = parameters.template_switch_maximum_overlap_tries
        /\ AllOverlap(verdicts)

C9_ExhaustionGivesOverlapError ==
    [][(/\ checking
        /\ pc = "template_switch"
        /\ Len(verdicts) = parameters.template_switch_maximum_overlap_tries
        /\ AllOverlap(verdicts)) =>
          (pc' = "failed" /\ error' = "TemplateSwitchOverlap")]_vars

\* C9: with overlap checking enabled, a call of next that selects a template
\* switch consults the detector at most template_switch_maximum_overlap_tries
\* times, returns the first candidate judged Independent and never one judged
\* Overlap, and fails with TemplateSwitchOverlap exactly when that many
\* candidates in a row were judged Overlap.
C9_RetryLoop ==
    /\ [](C9_AtMostMaximumTries /\ C9_ReturnsFirstIndependent
            /\ C9_OverlapErrorOnlyOnExhaustion)
    /\ C9_ExhaustionGivesOverlapError

\* A call gave up after MaxTries candidates that were all judged Overlap.
C9_Witness ==
    /\ checking
    /\ pc = "failed"
    /\ error = "TemplateSwitchOverlap"
    /\ Len(verdicts) = MaxTries
    /\ MaxTries > 1
    /\ AllOverlap(verdicts)

\* Whatever next samples, the position range is not empty.
EveryPositionRangeIsNonEmpty ==
    \A offset \in SampledOffsets, length \in SampledLengths :
       \A length_difference \in SampledLengthDifferences(length) :
          PositionsIn(position_range(offset, length, length_difference)) # {}

\* C10: with template_switch_overlap = true, a call of next that selects a
\* template switch and finds a non-empty position range returns the first
\* sampled template switch, whatever template_switch_maximum_overlap_tries
\* is; it never fails with TemplateSwitchOverlap and it leaves the detector
\* alone.
C10_OverlapAllowedAcceptsFirstSample ==
    [][(/\ parameters.template_switch_overlap
        /\ pc = "template_switch"
        /\ EveryPositionRangeIsNonEmpty) =>
          /\ tries = 0
          /\ pc' = "apply"
          /\ modification'.kind = "TemplateSwitch"
          /\ error' # "TemplateSwitchOverlap"
          /\ UNCHANGED detector_vars]_vars

\* next returned Ok(None): apply leaves its loop, nothing else has changed.
ReturnsNone ==
    /\ modification' = NoModification
    /\ pc' \in {"clear", "done"}
    /\ error' = "None"
    /\ amount' = amount
    /\ UNCHANGED detector_vars

\* The statement for every sequence length, the empty sequence included.
C11_Original ==
    [][(pc = "next" /\ sum = 0) => ReturnsNone]_vars

\* C11: when all three remaining budgets are zero, next returns Ok(None)
\* without error and without changing the budgets or the detector, for every
\* sequence length above zero; on the empty sequence it returns
\* Err(SequenceBecameEmpty), the budgets and the detector unchanged.
C11_NoneOnceBudgetsAreZero ==
    [][(pc = "next" /\ sum = 0) =>
          IF sequence_length[pass] # 0
          THEN ReturnsNone
          ELSE /\ pc' = "failed"
               /\ error' = "SequenceBecameEmpty"
               /\ amount' = amount
               /\ UNCHANGED detector_vars]_vars

\* A query pass that ended with Ok(None) on a non-empty sequence, after the
\* detector had recorded something.
C11_Witness ==
    /\ pc = "done"
    /\ sum = 0
    /\ sequence_length[pass] # 0
    /\ modification = NoModification
    /\ modification_stack # <<>>
    /\ error = "None"

\* T + G + S of the modifier that is running.
InitialSum ==
    budget[pass].template_switch_amount + budget[pass].gap_amount
        + budget[pass].substitution_amount

\* apply has returned: Ok after its pass, or the Err or panic that ended it.
Returned == pc \in {"clear", "done", "failed", "panicked"}

C12_AtMostSumPlusOneCalls ==
    calls <= InitialSum + 1

C12_OkMeansEverythingApplied ==
    pc \in {"clear", "done"} =>
        /\ applied.template_switch = budget[pass].template_switch_amount
        /\ applied.gap = budget[pass].gap_amount
        /\ applied.substitution = budget[pass].substitution_amount
        /\ sum = 0

\* What is left of the running apply: the budgets still to spend, then the
\* tries left of the retry loop, then the application of what next returned.
Rank ==
    IF Returned THEN 0
    ELSE sum * (MaxTries + 4)
         + (IF pc = "next" THEN 1
            ELSE IF pc = "apply" THEN 2
            ELSE 3 + (parameters.template_switch_maximum_overlap_tries - tries))

C12_EveryStepLowersRank ==
    [][pass' = pass => (Rank' < Rank /\ Rank' >= 0)]_vars

\* C12: apply always terminates (every step of a pass lowers a natural
\* number); it calls next at most T + G + S + 1 times; and when it returns Ok
\* exactly T template switches, G gaps and S substitutions have been applied
\* and all three budgets are zero.
C12_ApplyTerminates ==
    /\ [](C12_AtMostSumPlusOneCalls /\ C12_OkMeansEverythingApplied)
    /\ C12_EveryStepLowersRank

\* The query modifier applied one modification of each kind and returned Ok
\* after T + G + S + 1 calls of next.
C12_Witness ==
    /\ pc = "done"
    /\ applied.template_switch >= 1
    /\ applied.gap >= 1
    /\ applied.substitution >= 1
    /\ calls = InitialSum + 1

\* ------------------------------------------------------------------------
\* Properties of split_int_random and new_modifier_pair.
\* ------------------------------------------------------------------------

\* C13: for every n >= 0, n = 0 included, and every fraction in [0, 1],
\* split_int_random(n, f) returns without assertion failure or arithmetic
\* underflow, and its two parts sum to n.
C13_SplitReturnsPartsThatSumToInt ==
    (input.function = "split_int_random" /\ output # NoCall) =>
        /\ ~output.panicked
        /\ output.value[1] + output.value[2] = input.int

\* floor(f * n) for f = numerator / FractionDenominator.
FloorOfShare(numerator, n) == (numerator * n) \div FractionDenominator

ShareIsInteger(numerator, n) == (numerator * n) % FractionDenominator = 0

\* The first part is floor(f * n), or one more when f * n is no integer, and
\* the second part is the rest.
SplitAsClaimed(numerator, n, first, second) ==
    /\ \/ first = FloorOfShare(numerator, n)
       \/ first = FloorOfShare(numerator, n) + 1 /\ ~ShareIsInteger(numerator, n)
    /\ second = n - first
    /\ numerator = FractionDenominator => first = n
    /\ numerator = 0 => second = n

AmountFields == {"template_switch_amount", "gap_amount", "substitution_amount"}

\* C14: new_modifier_pair splits each of the three amounts n: the query
\* modifier gets floor(f * n), or floor(f * n) + 1 when f * n is no integer,
\* the reference modifier the remainder; f = 1 gives everything to the query
\* modifier, f = 0 everything to the reference modifier.
C14_QueryGetsFirstPart ==
    (input.function = "new_modifier_pair" /\ output # NoCall) =>
        /\ ~output.panicked
        /\ \A field \in AmountFields :
              SplitAsClaimed(input.numerator,
                             input.sequence_modification_amount[field],
                             output.value.query[field],
                             output.value.reference[field])

\* ------------------------------------------------------------------------
\* Properties of the sampling in next.
\* ------------------------------------------------------------------------

\* This step is a call of next that selects a gap.
GapSelected ==
    /\ pc = "next"
    /\ amount'[pass].gap_amount # amount[pass].gap_amount

\* C15: when next selects a gap of sampled length L on a sequence of length
\* P, it fails with SequenceTooShortForGap if L > P, and for every L with
\* 1 <= L <= P it returns an Insertion with position in [0, P) and source in
\* [0, P - L), or a Deletion with position in [0, P - L), of length L.
C15_GapFailsOrReturnsInRange ==
    [][GapSelected =>
          LET P == sequence_length[pass]
              m == modification'
          IN \/ /\ pc' = "failed"
                /\ error' = "SequenceTooShortForGap"
                /\ \E L \in SampledGapLengths : L > P
             \/ /\ pc' = "apply"
                /\ m.kind = "Insertion"
                /\ m.length \in SampledGapLengths
                /\ m.length <= P
                /\ m.position \in 0..(P - 1)
                /\ m.source \in 0..(P - m.length - 1)
             \/ /\ pc' = "apply"
                /\ m.kind = "Deletion"
                /\ m.length \in SampledGapLengths
                /\ m.length <= P
                /\ m.position \in 0..(P - m.length - 1)]_vars

\* The sequence lengths looked at when searching the least sufficient one.
SufficientLengths == 0..MaxSufficientLength

\* The least sequence length on which the sample has a position to choose.
MinimumSufficientLength(offset, length, length_difference) ==
    LET sufficient ==
            {P \in SufficientLengths :
                PositionsIn(position_range_on(P, offset, length,
                                              length_difference)) # {}}
    IN CHOOSE P \in sufficient : \A Q \in sufficient : P <= Q

\* C16: when the position range of the sampled (offset, length,
\* length_difference) is empty, next fails with
\* SequenceTooShortForTemplateSwitch, and the reported
\* template_switch_required_sequence_length is the least sequence length on
\* which that sample and margin have a non-empty position range.
C16_ReportsMinimumSufficientLength ==
    [][(pc = "template_switch" /\ pc' = "failed"
            /\ error' = "SequenceTooShortForTemplateSwitch") =>
          \E offset \in SampledOffsets, length \in SampledLengths :
             \E length_difference \in SampledLengthDifferences(length) :
                /\ PositionsIn(position_range(offset, length,
                                              length_difference)) = {}
                /\ required_sequence_length'
                       = MinimumSufficientLength(offset, length,
                                                 length_difference)]_vars


\* ------------------------------------------------------------------------
\* Properties of SequenceModification::apply.
\* ------------------------------------------------------------------------

Applied(kind) ==
    input.function = "apply" /\ input.modification.kind = kind

\* The read range [p + o - length + 1, p + o + 1) and the replaced range
\* [p, p + length - d) of the applied template switch lie inside the sequence.
TemplateSwitchInBounds ==
    LET m == input.modification
        P == Len(input.sequence)
    IN /\ Applied("TemplateSwitch")
       /\ 0 <= (m.position + m.offset + 1) - m.length
       /\ m.position + m.offset + 1 <= P
       /\ m.position <= (m.position + m.length) - m.length_difference
       /\ (m.position + m.length) - m.length_difference <= P

ReverseComplementOfReadRange(s, m) ==
    [i \in 1..m.length |-> complement(s[(m.position + m.offset + 2) - i])]

\* C18: an in-bounds template switch returns s[0..p), then the reverse
\* complement of s[p+o-length+1 .. p+o+1), then s[p+length-d ..).
C18_SplicesReverseComplement ==
    TemplateSwitchInBounds =>
        LET m == input.modification
            s == input.sequence
        IN /\ ~output.panicked
           /\ output.value
                 = SubSeq(s, 1, m.position)
                      \o ReverseComplementOfReadRange(s, m)
                      \o SubSeq(s, ((m.position + m.length)
                                       - m.length_difference) + 1, Len(s))

\* A template switch of two characters that differ after complementing,
\* with characters kept before and behind it.
C18_Witness ==
    /\ TemplateSwitchInBounds
    /\ ~output.panicked
    /\ LET m == input.modification
           s == input.sequence
       IN /\ m.length >= 2
          /\ m.position >= 1
          /\ (m.position + m.length) - m.length_difference < Len(s)
          /\ s[m.position + m.offset + 1] # s[m.position + m.offset]

\* The stated range of a substitution: 1 <= k < A at a position of s.
SubstitutionInRange(s, m) ==
    /\ m.kind = "Substitution"
    /\ 1 <= m.character_increment
    /\ m.character_increment < AlphabetSize
    /\ m.position < Len(s)

C19_ChangesOnlyThePosition ==
    (Applied("Substitution")
        /\ SubstitutionInRange(input.sequence, input.modification)) =>
        LET m == input.modification
            s == input.sequence
        IN /\ ~output.panicked
           /\ Len(output.value) = Len(s)
           /\ \A i \in 1..Len(s) :
                 i # m.position + 1 => output.value[i] = s[i]
           /\ output.value[m.position + 1]
                 = (s[m.position + 1] + m.character_increment) % AlphabetSize
           /\ output.value[m.position + 1] # s[m.position + 1]

\* Substitution{p, A - k} was applied to what Substitution{p, k} returned.
SubstitutedBack ==
    /\ Applied("Substitution")
    /\ input.before.substituted
    /\ SubstitutionInRange(input.before.sequence, input.before.modification)
    /\ input.modification.position = input.before.modification.position
    /\ input.modification.character_increment
          = AlphabetSize - input.before.modification.character_increment

C19_SubstitutingBackRestores ==
    SubstitutedBack =>
        /\ ~output.panicked
        /\ output.value = input.before.sequence

\* C19: Substitution{p, k} with 1 <= k < A changes only the character at p,
\* to index (old + k) mod A, which differs from the old one, and
\* Substitution{p, A - k} applied after it restores the sequence.
C19_SubstitutionIsReversible ==
    C19_ChangesOnlyThePosition /\ C19_SubstitutingBackRestores

C19_Witness ==
    /\ SubstitutedBack
    /\ Len(input.sequence) >= 2
    /\ input.modification.character_increment
          # input.before.modification.character_increment
    /\ input.sequence # input.before.sequence
    /\ ~output.panicked

\* ------------------------------------------------------------------------
\* Properties of NGramModel::from_sequences.
\* ------------------------------------------------------------------------

Kmers == [1..N -> Characters]

\* The (sequence, offset) pairs with 0 <= offset < |s| - N - 1 whose context
\* is kmer and whose successor is character.
TrainingWindows(kmer, character) ==
    {w \in (1..Len(input.sequences)) \X (0..MaxTrainingLength + 2) :
        LET s == input.sequences[w[1]]
            i == w[2]
        IN /\ i < (Len(s) - N) - 1
           /\ SubSeq(s, i + 1, i + N) = kmer
           /\ s[i + N + 1] = character}

C20_CountsAreWindowCounts ==
    output.state = "returned" =>
        \A kmer \in Kmers :
            /\ kmer \in DOMAIN output.model
                  <=> \E character \in Characters :
                         TrainingWindows(kmer, character) # {}
            /\ kmer \in DOMAIN output.model =>
                  /\ \A character \in Characters :
                        output.model[kmer][character]
                           = Cardinality(TrainingWindows(kmer, character))
                  /\ \E character \in Characters :
                        output.model[kmer][character] > 0

\* A row of abundances, written as a list, as a function of the character.
Row(abundances) == [character \in Characters |-> abundances[character + 1]]

\* ACGTAC with N = 2 gives AC -> [0,0,1,0], CG -> [0,0,0,1], GT -> [1,0,0,0].
C20_Example ==
    (output.state = "returned" /\ input.sequences = <<TrainingSequence>>) =>
        output.model = (<<0, 1>> :> Row(<<0, 0, 1, 0>>))
                          @@ (<<1, 2>> :> Row(<<0, 0, 0, 1>>))
                          @@ (<<2, 3>> :> Row(<<1, 0, 0, 0>>))

\* C20: when from_sequences has returned, a context is a key of the model
\* iff some window at an offset 0 <= i < |s| - N - 1 has it, every stored
\* count is the number of such windows with that context and successor, so
\* every row has a positive entry and the last window of each sequence is
\* not counted; ACGTAC gives exactly the three rows of the example.
C20_FromSequencesCountsAllButLastWindow ==
    C20_CountsAreWindowCounts /\ C20_Example

\* Two sequences were counted, one context twice, and the context of a last
\* window is not a key.
C20_Witness ==
    /\ output.state = "returned"
    /\ Len(input.sequences) = 2
    /\ \E kmer \in DOMAIN output.model, character \in Characters :
          output.model[kmer][character] >= 2
    /\ \E j \in 1..Len(input.sequences) :
          LET s == input.sequences[j]
          IN SubSeq(s, Len(s) - N, Len(s) - 1) \notin DOMAIN output.model

\* ------------------------------------------------------------------------
\* Budgets and the detector's stack in generate-pair.
\* ------------------------------------------------------------------------

\* The budget field a returned modification is charged to.
AmountFieldOf(m) ==
    IF m.kind = "TemplateSwitch" THEN "template_switch_amount"
    ELSE IF m.kind = "Substitution" THEN "substitution_amount"
    ELSE "gap_amount"

\* In this step `field` of the running modifier goes down by one and nothing
\* else in the budgets changes.
ChargesOne(field) ==
    /\ amount[pass][field] > 0
    /\ amount' = [amount EXCEPT ![pass] = [@ EXCEPT ![field] = @ - 1]]

\* A step in which next returns Some(modification').
ReturnsSome == pc \in {"next", "template_switch"} /\ pc' = "apply"

C24_ChargedOnSelection ==
    [][/\ (pc = "next" /\ pc' = "template_switch")
             => ChargesOne("template_switch_amount")
       /\ pc = "template_switch" => amount' = amount
       /\ (pc = "next" /\ pc' = "apply")
             => /\ modification'.kind # "TemplateSwitch"
                /\ ChargesOne(AmountFieldOf(modification'))
       /\ (pc = "template_switch" /\ pc' = "apply")
             => modification'.kind = "TemplateSwitch"]_vars

C24_NoBudgetUnderflows ==
    \A p \in Passes, field \in AmountFields : amount[p][field] >= 0

\* C24: a call of next that returns Some(modification) lowers the budget of
\* the returned kind by exactly one, leaves the other two as they were, and
\* returns no kind whose budget is zero; no budget goes below zero.
C24_ReturnedKindIsChargedOnce ==
    C24_ChargedOnSelection /\ []C24_NoBudgetUnderflows

\* All three kinds have been returned and charged in one pass.
C24_Witness ==
    /\ pc = "apply"
    /\ applied.template_switch + applied.gap + applied.substitution = 2
    /\ \A field \in AmountFields :
          budget[pass][field] = 1 /\ amount[pass][field] = 0

C25_StackStartsEmpty ==
    (pass = "reference" /\ calls = 0) => modification_stack = <<>>

C25_StackGrowsByReturnsOnly ==
    [][checking =>
          IF ReturnsSome
          THEN modification_stack' = Append(modification_stack, modification')
          ELSE IF pc = "clear"
          THEN modification_stack' = <<>>
          ELSE modification_stack' = modification_stack]_vars

\* The stack holds as many entries as modifications were returned in this
\* pass, the last returned one on top.
C25_StackCountsReturns ==
    checking =>
        /\ Len(modification_stack)
              = (applied.template_switch + applied.gap + applied.substitution)
                   + (IF pc = "apply" THEN 1 ELSE 0)
        /\ pc = "apply"
              => modification_stack[Len(modification_stack)] = modification

\* C25: with overlap checking enabled the detector's modification_stack is,
\* in order, the list of modifications next has returned since the detector
\* was created or last cleared: each return pushes the returned modification
\* once, and nothing else (a rejected candidate, an error) changes the stack.
C25_StackIsTheReturnedModifications ==
    /\ C25_StackStartsEmpty
    /\ C25_StackGrowsByReturnsOnly
    /\ []C25_StackCountsReturns

\* A template switch was returned after a rejected candidate, on top of an
\* earlier return.
C25_Witness ==
    /\ checking
    /\ pc = "apply"
    /\ Len(verdicts) >= 2
    /\ verdicts[1] = "Overlap"
    /\ verdicts[Len(verdicts)] = "Independent"
    /\ Len(modification_stack) >= 2

\* ------------------------------------------------------------------------
\* Properties of next over all configured intervals.
\* ------------------------------------------------------------------------

\* next returned a template switch; P is the length it was called with.
IntervalReturned ==
    /\ output # NoCall
    /\ output.function = "next"
    /\ output.result = "Some"

IntervalApplied == output # NoCall /\ output.function = "apply"

\* C23: with only a template-switch budget and an ancestor shorter than
\* min_len + 2 * margin + max_offset, next fails with
\* SequenceTooShortForTemplateSwitch whatever is drawn (here for a
\* non-empty ancestor and a loop that is allowed at least one try).
C23_ShortAncestorAlwaysTooShort ==
    LET c == input.sequence_modification_parameters
    IN (/\ input.function = "next"
        /\ output # NoCall
        /\ input.sequence_length > 0
        /\ parameters.template_switch_maximum_overlap_tries > 0
        /\ input.sequence_length
              < (c.template_switch_min_length + 2 * margin)
                   + c.template_switch_max_offset) =>
          /\ output.function = "next"
          /\ output.result = "Err"
          /\ output.error = "SequenceTooShortForTemplateSwitch"

\* C29: the replaced range of a returned template switch lies inside the
\* sequence: position <= position + length - length_difference <= P, so
\* apply does not splice past the end.
C29_ReplacedRangeInsideSequence ==
    /\ IntervalReturned =>
          LET m == output.modification
          IN /\ m.position <= (m.position + m.length) - m.length_difference
             /\ (m.position + m.length) - m.length_difference
                   <= input.sequence_length
    /\ IntervalApplied => ~output.panicked

\* C30: the read range of a returned template switch lies inside the
\* sequence: 0 <= position + offset - length + 1 and position + offset < P,
\* so apply reads exactly `length` characters.
C30_ReadRangeInsideSequence ==
    /\ IntervalReturned =>
          LET m == output.modification
          IN /\ 0 <= ((m.position + m.offset) - m.length) + 1
             /\ m.position + m.offset < input.sequence_length
    /\ IntervalApplied => output.read = output.modification.length

\* ------------------------------------------------------------------------
\* Substitutions and the detector.
\* ------------------------------------------------------------------------

IsNoSubstitution(m) == m.kind # "Substitution"

WithoutSubstitutions(stack) == SelectSeq(stack, IsNoSubstitution)

\* The range a template switch is compared with, folded through `stack`.
FoldedThrough(m, stack) ==
    LET candidate == candidate_range(m)
    IN rewrite_range([start |-> candidate.start,
                      end |-> candidate.end,
                      overflow |-> candidate_range_overflows(m)],
                     stack, Len(stack))

\* Whatever template switch is applied next, the range the detector compares
\* and stores is the one it would get with the substitutions taken out of
\* the stack; the verdict and the new template_switches follow from it.
C26_FoldIgnoresSubstitutions ==
    WithoutSubstitutions(modification_stack) # modification_stack =>
        \A m \in TemplateSwitchInputs :
            new_range_of(m)
               = FoldedThrough(m, WithoutSubstitutions(modification_stack))

\* Applying a substitution stores no range and removes none.
C26_SubstitutionKeepsRanges ==
    [][(/\ Len(modification_stack') = Len(modification_stack) + 1
        /\ modification_stack'[Len(modification_stack')].kind = "Substitution")
          => /\ template_switches' = template_switches
             /\ collision' = "Independent"]_vars

\* C26: substitutions are invisible to overlap detection: a substitution
\* changes no stored range, and the verdict and stored range of every later
\* template switch are the same with and without the substitutions on the
\* stack.
C26_SubstitutionsAreInvisible ==
    C26_SubstitutionKeepsRanges /\ []C26_FoldIgnoresSubstitutions

\* A substitution lies on the stack above a gap that shifts the range of
\* some template switch, with a range stored.
C26_Witness ==
    /\ Len(modification_stack) = 2
    /\ modification_stack[1].kind \in {"Insertion", "Deletion"}
    /\ modification_stack[2].kind = "Substitution"
    /\ template_switches # <<>>
    /\ \E m \in TemplateSwitchInputs :
          /\ ~rejected_by_margin(m)
          /\ new_range_of(m).start # candidate_range(m).start

\* ------------------------------------------------------------------------
\* Properties of the sequence generator.
\* ------------------------------------------------------------------------

GeneratorCalled == input.function = "generate_sequence" /\ output # NoCall

GeneratorEnded == GeneratorCalled /\ output.state # "running"

\* The model is not empty and each of its rows has a positive count.
NonEmptyPositiveModel ==
    /\ DOMAIN input.model # {}
    /\ \A kmer \in DOMAIN input.model :
          \E character \in Characters : input.model[kmer][character] > 0

\* C21: with a non-empty model of positive rows and a length of at least N,
\* generate_sequence ends only by returning exactly length characters.
C21_ReturnsLengthCharacters ==
    (GeneratorEnded /\ NonEmptyPositiveModel /\ input.length >= N)
        => /\ output.state = "returned"
           /\ Len(output.sequence) = input.length

\* No row of the model sums to more than a u32 holds.
RowSumsFit ==
    \A kmer \in DOMAIN input.model : ~sum_overflows(input.model[kmer])

\* Steps left before generate_sequence returns: three per missing
\* character, less what the running call of next has done already.
GeneratorRank ==
    IF ~GeneratorCalled THEN 3 * MaxGeneratedLength + 4
    ELSE IF output.state # "running" THEN 0
    ELSE 3 * (input.length - Len(output.sequence)) + 3
         - (IF output.kmer = NoKmer THEN 1
            ELSE IF output.next_index >= N
                    /\ output.kmer \notin DOMAIN input.model THEN 0
            ELSE 2)

C21_RankDecreases == [][GeneratorRank' < GeneratorRank]_vars

C21_AtMostOneReseed ==
    (GeneratorCalled /\ output.state = "running") => output.reseeds <= 1

C21_RunningCanStep ==
    (GeneratorCalled /\ output.state = "running") => ENABLED GeneratorNext

\* Where no row sum overflows, generate_sequence does as C21 says.
C21_HoldsWhereRowSumsFit ==
    /\ C21_RankDecreases
    /\ [](RowSumsFit => C21_ReturnsLengthCharacters)
    /\ []C21_AtMostOneReseed
    /\ []C21_RunningCanStep

\* The N characters emitted before place j of the output.
ContextBefore(j) == SubSeq(output.sequence, j - N, j - 1)

\* The places of the output filled by successor sampling.
SampledPlaces ==
    {j \in 1..Len(output.sequence) : output.origins[j] = 0}

\* Once the seed is out the current k-mer is the last N emitted characters.
C27_KmerIsLastEmitted ==
    (GeneratorCalled /\ output.state = "running" /\ output.kmer # NoKmer
        /\ output.next_index >= N)
        => /\ Len(output.sequence) >= N
           /\ output.kmer = ContextBefore(Len(output.sequence) + 1)

\* Every sampled character has a positive count in the row of the N
\* characters before it.
C27_SampledHavePositiveCount ==
    GeneratorCalled =>
        \A j \in SampledPlaces :
            /\ j > N
            /\ ContextBefore(j) \in DOMAIN input.model
            /\ input.model[ContextBefore(j)][output.sequence[j]] > 0

\* C27: after a seed has been emitted the current k-mer is the last N
\* emitted characters, and every character emitted by successor sampling,
\* with the N characters before it, is a context and a successor of
\* positive count in the model.
C27_OutputFollowsModel ==
    C27_KmerIsLastEmitted /\ C27_SampledHavePositiveCount

\* Two successors have been sampled in a row and the sequence returned.
C27_Witness ==
    /\ GeneratorCalled
    /\ output.state = "returned"
    /\ output.origins = <<1, 2, 0, 0>>

\* The places of the output where a seed begins.
SeedPlaces ==
    {j \in 1..Len(output.sequence) : output.origins[j] = 1}

\* A seed begins at the start, or after N characters that are no key.
C28_ReseedsOnlyWithoutKey ==
    GeneratorCalled =>
        /\ \A j \in SeedPlaces :
              \/ j = 1
              \/ j > N /\ ContextBefore(j) \notin DOMAIN input.model
        /\ (output.state = "running" /\ output.kmer = NoKmer)
              => \/ output.sequence = <<>>
                 \/ /\ Len(output.sequence) >= N
                    /\ ContextBefore(Len(output.sequence) + 1)
                          \notin DOMAIN input.model

\* The characters of a seed come out in order, nothing between them, and
\* they are a key of the model; a successor follows a whole seed or
\* another successor.
C28_SeedsAreEmittedWhole ==
    GeneratorCalled =>
        /\ \A j \in 1..Len(output.sequence) :
              /\ output.origins[j] > 1
                    => j > 1 /\ output.origins[j - 1] = output.origins[j] - 1
              /\ output.origins[j] = 0
                    => j > 1 /\ output.origins[j - 1] \in {0, N}
              /\ output.origins[j] = 1
                    => j = 1 \/ output.origins[j - 1] \in {0, N}
        /\ \A j \in SeedPlaces :
              j + N - 1 <= Len(output.sequence)
                 => /\ SubSeq(output.sequence, j, j + N - 1)
                          \in DOMAIN input.model
                    /\ \A i \in 0..(N - 1) : output.origins[j + i] = i + 1

\* A returned sequence begins with a key of the model.
C28_BeginsWithStoredContext ==
    (GeneratorCalled /\ output.state = "returned")
        => SubSeq(output.sequence, 1, N) \in DOMAIN input.model

\* A step of the generator keeps what was emitted and adds at most one
\* character; seeding and discarding the k-mer add none.
C28_StepKeepsEmitted ==
    GeneratorCalled =>
        /\ Len(output'.sequence) \in
              {Len(output.sequence), Len(output.sequence) + 1}
        /\ SubSeq(output'.sequence, 1, Len(output.sequence))
              = output.sequence
        /\ (GeneratorSeeds \/ GeneratorDiscardsKmer)
              => output'.sequence = output.sequence

\* C28: the generator reseeds only at the start and when the current k-mer
\* is no key of the model; every seed is a key, its N characters are
\* emitted in order before a successor is sampled, no emitted character is
\* dropped or repeated by a reseed, and the output begins with a key.
C28_SeedsAreStoredContexts ==
    /\ [][C28_StepKeepsEmitted]_vars
    /\ []C28_ReseedsOnlyWithoutKey
    /\ []C28_SeedsAreEmittedWhole
    /\ []C28_BeginsWithStoredContext

\* A sequence has been returned that was reseeded after its first
\* successor.
C28_Witness ==
    /\ GeneratorCalled
    /\ output.state = "returned"
    /\ output.origins = <<1, 2, 0, 1>>

\* ------------------------------------------------------------------------
\* Properties of main.
\* ------------------------------------------------------------------------

MainExited ==
    input.function = "main" /\ output # NoCall /\ output.state = "exited"

\* C22: the exit status is zero exactly when the command succeeded; a
\* command that ended with an error has printed it and exits non-zero.
C22_ExitStatusTellsError ==
    MainExited =>
        /\ output.result = "Ok" => output.exit_status = 0
        /\ output.result \in ErrorsOf(input.command)
              => /\ output.stdout # <<>>
                 /\ output.exit_status # 0

\* What main does with an error: it is printed and the status is zero.
C22_ErrorIsPrintedAndStatusIsZero ==
    (MainExited /\ output.result \in ErrorsOf(input.command))
        => /\ output.stdout = <<"Error: ", output.result>>
           /\ output.exit_status = 0

\* ------------------------------------------------------------------------
\* from_sequences on short sequences.
\* ------------------------------------------------------------------------

\* The sequence from_sequences is at has at most `length` characters.
AtSequenceUpTo(length) ==
    /\ input.function = "from_sequences"
    /\ InLoops
    /\ Len(input.sequences[output.index]) <= length

\* from_sequences goes on to the next sequence with the model as it was.
SkipsSequence ==
    /\ output'.state = "running"
    /\ output'.index = output.index + 1
    /\ output'.model = output.model

\* C33: a sequence of at most N + 1 characters is passed over: no window is
\* counted, the model stays as it is and nothing panics.
C33_ShortSequencesAreSkipped == [][AtSequenceUpTo(N + 1) => SkipsSequence]_vars

\* What the code does: a sequence of exactly N + 1 characters is passed
\* over, one of at most N characters makes from_sequences panic.
C33_ShorterThanWindowPanics ==
    [][/\ (AtSequenceUpTo(N + 1) /\ ~AtSequenceUpTo(N)) => SkipsSequence
       /\ AtSequenceUpTo(N) => output'.state = "panicked"]_vars

\* ------------------------------------------------------------------------
\* The detector's range against what apply touches.
\* ------------------------------------------------------------------------

\* The sequence indices apply reads for the template switch m: `length`
\* characters of the reverse complement, from position + offset downwards.
ReadIndices(m) ==
    {i \in (m.position + m.offset - m.length + 1)..(m.position + m.offset) :
        i >= 0}

\* The sequence indices apply replaces for the template switch m.
ReplacedIndices(m) ==
    m.position..(m.position + m.length - m.length_difference - 1)

TouchedIndices(m) == ReadIndices(m) \cup ReplacedIndices(m)

\* The indices of the detector's range for m before the margin is added.
RangeIndices(m) == range_offset(m)..(range_limit(m) - 1)

AcceptedTemplateSwitches ==
    {k \in 1..Len(modification_stack) :
        modification_stack[k].kind = "TemplateSwitch"}

\* C31: the range the detector computes for an accepted template switch,
\* before the margin is added, contains every index its application reads
\* or replaces.
C31_RangeContainsTouchedIndices ==
    \A k \in AcceptedTemplateSwitches :
        TouchedIndices(modification_stack[k])
            \subseteq RangeIndices(modification_stack[k])

\* The same where the casts of the range computation do not wrap.
C31_RangeContainsTouchedIndicesWithoutWrap ==
    \A k \in AcceptedTemplateSwitches :
        LET m == modification_stack[k]
        IN (m.position - m.length + m.offset >= 0 /\ m.position + m.offset >= 0
               /\ m.position + m.length - m.length_difference >= 0)
              => TouchedIndices(m) \subseteq RangeIndices(m)

\* With margin 0, two accepted template switches that do not change the
\* length touch no common index.
C31_AcceptedNeverShareIndex ==
    (/\ margin = 0
     /\ \A k \in 1..Len(modification_stack) :
           /\ modification_stack[k].kind = "TemplateSwitch"
           /\ modification_stack[k].length_difference = 0)
        => \A j, k \in 1..Len(modification_stack) :
              j # k => TouchedIndices(modification_stack[j])
                          \cap TouchedIndices(modification_stack[k]) = {}

\* What the range does contain: every replaced index, and every read index
\* but position + offset, where nothing wraps.
C31_RangeMissesOnlyLastReadIndex ==
    \A k \in AcceptedTemplateSwitches :
        LET m == modification_stack[k]
        IN (m.position - m.length + m.offset >= 0 /\ m.position + m.offset >= 0
               /\ m.position + m.length - m.length_difference >= 0)
              => TouchedIndices(m) \ {m.position + m.offset}
                    \subseteq RangeIndices(m)

\* ------------------------------------------------------------------------
\* The fold over the modification stack stays within the unsigned domain.
\* ------------------------------------------------------------------------

\* Undoing `prior` from the endpoint e subtracts without leaving the
\* non-negative numbers, and the endpoint does not grow.
UndoStaysInDomain(e, prior) ==
    e > prior.position =>
        /\ prior.kind = "Insertion"
              => /\ e - prior.length >= 0
                 /\ rewrite_endpoint(e, prior) <= e
        /\ prior.kind = "TemplateSwitch"
              => /\ e - prior.length_difference >= 0
                 /\ prior.length_difference > 0
                       => rewrite_endpoint(e, prior) <= e

\* The same for every step of the fold, from stack[k] down to stack[1].
RECURSIVE FoldStaysInDomain(_, _, _)
FoldStaysInDomain(e, stack, k) ==
    IF k = 0 THEN TRUE
    ELSE /\ UndoStaysInDomain(e, stack[k])
         /\ FoldStaysInDomain(rewrite_endpoint(e, stack[k]), stack, k - 1)

\* C32: whatever the modification stack, for every template switch that
\* passes the margin test no step of the fold subtracts below zero, and
\* undoing an insertion or a template switch of positive length difference
\* never moves an endpoint up.
C32_FoldNeverWraps ==
    (modification_stack # <<>> /\ collision # "Panic") =>
        \A m \in TemplateSwitchInputs :
            ~rejected_by_margin(m) =>
                /\ FoldStaysInDomain(candidate_range(m).start,
                                     modification_stack,
                                     Len(modification_stack))
                /\ FoldStaysInDomain(candidate_range(m).end,
                                     modification_stack,
                                     Len(modification_stack))

====
